---- MODULE Spec2Model ----
(***************************************************************************)
(* A model of the radar streaming server (src/src/tcp_server.rs,           *)
(* src/src/radar_simulator.rs) and of the merging client                   *)
(* (src/enhanced_client.rs).                                               *)
(*                                                                         *)
(*   Spec        the server: accept loops, connection sessions and the     *)
(*               periodic broadcaster, interleaved at the granularity of   *)
(*               their lock-protected sections.                            *)
(*   FairSpec    Spec with the fairness of the tokio scheduler for the     *)
(*               server's own tasks.                                       *)
(*   ExtractSpec extract_client_portion applied to complete sweeps.        *)
(*   MergerSpec  SlidingWindowProcessor: add_client_data and               *)
(*               try_merge_next_frame.                                     *)
(***************************************************************************)
EXTENDS Integers, Sequences, FiniteSets, TLC

\* ---------------------------------------------------------------- bounds
MaxClients == 2        \* connections accepted over a run
MaxCrowd == 3          \* connections accepted over a run with a third peer
MaxTicks   == 3        \* broadcasting ticks over a run (caps the u64 counters)
MaxMsgLen  == 2        \* tokens in one read of a session
MaxSeed    == 3        \* intensity patterns of the complete sweeps extracted
RangeBins  == 2        \* range bins per azimuth row (RANGE_BINS in the source)
WindowSize == 2        \* window_size of the SlidingWindowProcessor
MaxArrivals == 4       \* sweeps handed to add_client_data over a run
MaxBufferSize == 2     \* DoubleBuffer.max_buffer_size (20 in the source)
MaxFrames == 2         \* sweeps handed to send_radar_data over a run
MaxReplies == 1        \* error responses written to one connection over a run
MaxCommands == 2       \* commands a client writes to one connection over a run
MaxAdds == 6           \* sweeps handed to add_sweep over a run
TimestampBits == 23    \* width of the u64 / i64 timestamps (64 in the source)

VARIABLES
    \* ---- server state
    client_counter,        \* RadarTcpServer.client_counter
    clients,               \* keys of the ClientConnections map
    ready_clients,         \* the ReadyClients map: id -> bool
    session,               \* position of handle_client_connection, per id
    clients_lock,          \* holder of the ClientConnections mutex
    bpc,                   \* position of radar_data_broadcaster
    last_ready_count,      \* broadcaster local
    sequence_counter,      \* RadarSimulator.sequence_counter
    current_time,          \* RadarSimulator.current_time, in tick periods
    clock,                 \* SystemTime::now() in microseconds since the server started
    sweep_timestamp,       \* timestamp of the sweep generated by the latest broadcasting tick
    complete_sweep,        \* sequence_id of the sweep of the current tick
    port_clients,          \* broadcaster local: port_index -> client_id
    pending,               \* port indices the send loop has not visited
    cur_index,             \* port index of the send in progress
    disconnected_clients,  \* broadcaster local: ids whose write failed
    \* ---- history of the server
    phase,                 \* per id: what its SEND_DATA / STOP commands did last
    listener,              \* per id: index in `ports` of the listener that accepted it
    evicted,               \* ids removed by the broadcaster after a failed write
    last_sent_seq,         \* sequence_id of the last sweep written to a peer
    reset_since_sent,      \* reset_sequence ran after last_sent_seq was written
    dropped_since_sent,    \* a tick saw fewer than 2 ready after that write
    tick_sent,             \* what the broadcaster has written since its latest tick
    \* ---- extract_client_portion
    frame,                 \* the complete sweep handed to extract_client_portion
    extracted,             \* client_id -> the portion returned for it
    \* ---- SlidingWindowProcessor
    client1_data,          \* window of link 0
    client2_data,          \* window of link 1
    processed_frames,      \* SlidingWindowProcessor.processed_frames
    arrivals,              \* calls of add_client_data so far
    evicted_sweeps,        \* history: <<link, sweep>> popped from a full window
    merge_result,          \* what the last try_merge_next_frame returned
    merged_ids,            \* history: the sequence_id of every frame emitted
    \* ---- DoubleBuffer
    front_buffer,          \* DoubleBuffer.front_buffer
    back_buffer,           \* DoubleBuffer.back_buffer
    current_front,         \* DoubleBuffer.current_front
    adds,                  \* calls of add_sweep so far
    batch,                 \* what the latest swap returned
    added_since_swap,      \* history: the sweeps added since the previous swap
    popped_since_swap,     \* history: the sweeps add_sweep popped since then
    swapped_out,           \* history: every sweep some swap has returned
    \* ---- one connection's sweep stream
    connection,            \* "open", or "broken" once a write has failed
    in_flight,             \* bytes written by the server, not yet at the client
    rx_bytes,              \* bytes at the client, not yet read
    reader,                \* position of receive_radar_data's loop
    data_size,             \* the prefix the reader has read last
    wire_sent,             \* history: the sweeps send_radar_data wrote in full
    wire_received,         \* the sweeps the reader has decoded, in order
    \* ---- the links between the server and a merging client
    link_received,         \* history: what the client has read off its two links
    \* ---- the tasks of the server at the two registry mutexes
    holder,                \* per mutex: the task that holds its guard
    todo,                  \* per task: the lock statements it has yet to run
    stage,                 \* per task: where it is between its lock statements
    \* ---- the two writers of one connection
    sending,               \* send_radar_data: the statement it is at and its sweep
    error_response,        \* the session's reply waiting to be written
    wire_log,              \* history: the writes made to the connection, in order
    \* ---- the commands of one connection
    commands_written,      \* history: the commands the client has written, in order
    command_bytes,         \* what the client has written and the session has not read
    applied                \* history: the commands the session has applied, in order

serverVars == <<client_counter, clients, ready_clients, session, clients_lock,
                bpc, last_ready_count, sequence_counter, current_time, clock,
                sweep_timestamp, complete_sweep, port_clients, pending, cur_index,
                disconnected_clients, phase, listener, evicted, last_sent_seq,
                reset_since_sent, dropped_since_sent, tick_sent>>

extractVars == <<frame, extracted>>

mergerVars == <<client1_data, client2_data, processed_frames, arrivals, evicted_sweeps,
                merge_result, merged_ids>>

bufferVars == <<front_buffer, back_buffer, current_front, adds, batch,
                added_since_swap, popped_since_swap, swapped_out>>

wireVars == <<connection, in_flight, rx_bytes, reader, data_size, wire_sent, wire_received>>

linkVars == <<link_received>>

lockVars == <<holder, todo, stage>>

writerVars == <<sending, error_response, wire_log>>

commandVars == <<commands_written, command_bytes, applied>>

\* what the server never touches
clientSide == <<extractVars, mergerVars, bufferVars, wireVars, linkVars, lockVars, writerVars,
                commandVars>>

\* what the components of the client never touch
serverSide == <<serverVars, linkVars, lockVars, writerVars, commandVars>>

vars == <<serverVars, extractVars, mergerVars, bufferVars, wireVars, linkVars, lockVars,
          writerVars, commandVars>>

Ids == 0 .. (MaxCrowd - 1)

\* ------------------------------------------------------- HashMap helpers
Insert(m, k, v) == [x \in (DOMAIN m) \cup {k} |-> IF x = k THEN v ELSE m[x]]

\* a removal that leaves the entry in place
KeepEntry(m, k) == m

\* a removal that takes every entry with it
RemoveAll(m, k) == [x \in {} |-> FALSE]

Remove(m, k) == [x \in (DOMAIN m) \ {k} |-> m[x]]

EmptyMap == [x \in {} |-> FALSE]

\* ------------------------------------------------------- session commands
Alphabet == {"SEND_DATA", "STOP", " ", "x"}

Messages == UNION {[1 .. n -> Alphabet] : n \in 1 .. MaxMsgLen}

RECURSIVE TrimStart(_)
TrimStart(s) ==
    IF s # <<>> /\ Head(s) = " " THEN TrimStart(Tail(s)) ELSE s

RECURSIVE TrimEnd(_)
TrimEnd(s) ==
    IF s # <<>> /\ s[Len(s)] = " " THEN TrimEnd(SubSeq(s, 1, Len(s) - 1)) ELSE s

Trim(s) == TrimEnd(TrimStart(s))

IsSendData(message) == message = <<"SEND_DATA">>

IsStop(message) == message = <<"STOP">>

\* the branch of the session's if / else if / else that a message takes
Branch(message) ==
    IF IsSendData(message) THEN "SEND_DATA"
    ELSE IF IsStop(message) THEN "STOP"
    ELSE "unknown"

\* the branches that the reads of a session can take
Received == {Branch(Trim(raw)) : raw \in Messages}

\* a flag that flips on every SEND_DATA instead of being set
MarkReadyToggle(ready_map, client_id) ==
    Insert(ready_map, client_id, ~(client_id \in DOMAIN ready_map /\ ready_map[client_id]))

MarkReady(ready_map, client_id) == Insert(ready_map, client_id, TRUE)

\* a STOP branch that stores true
StopStoresTrue(ready_map, client_id) == Insert(ready_map, client_id, TRUE)

MarkNotReady(ready_map, client_id) == Insert(ready_map, client_id, FALSE)

\* ------------------------------------------------------------ broadcaster
ReadyCount(ready_map) == Cardinality({k \in DOMAIN ready_map : ready_map[k]})

\* the reset without its test of the current count
ShouldResetOnRise(current_ready_count, last_count) == last_count < 2

ShouldReset(current_ready_count, last_count) ==
    current_ready_count = 2 /\ last_count < 2

\* the threshold of the skip off by one, downwards and upwards
ShouldSkipBelowOne(current_ready_count) == current_ready_count < 1

ShouldSkipUpToTwo(current_ready_count) == current_ready_count <= 2

ShouldSkip(current_ready_count) == current_ready_count < 2

\* a generator that forgets to advance its counter
NextSequenceStuck(counter) == counter

\* generate_complete_sweep: the sequence_id of the sweep it returns
NextSequence(counter) == counter + 1

Eligible(ready_map, clients_map) ==
    {k \in DOMAIN ready_map : ready_map[k] /\ k \in clients_map}

\* the bound on sent_count in the selection loop
PortCount == 2

\* The loop over ready_map visits the entries in the order of the HashMap,
\* which is arbitrary: any one-to-one assignment of the first indices.
SelectPortClients(elig) ==
    LET n == IF Cardinality(elig) < PortCount THEN Cardinality(elig) ELSE PortCount
    IN  {f \in [0 .. (n - 1) -> elig] : \A i, j \in 0 .. (n - 1) : f[i] = f[j] => i = j}

\* main.rs: ports = vec![8080, 8081], one listener each; a port is named by
\* its index
ListenPorts == {0, 1}

\* port_index outside the send loop
NoIndex == PortCount

AfterSend(rest, failed) ==
    IF rest # {} THEN "send" ELSE IF failed # {} THEN "cleanup" ELSE "idle"

\* the clock when interval.tick() returns: the shortest wait, a tick that
\* fires as soon as the previous pass is over
AfterInterval(now) == now + 1000

\* the clock when send_radar_data returns: it sleeps 1000 ms before it
\* writes to the peer of port index 0 (port 8080)
SendDelayMicros == 1000000

AfterSendDelay(now, port_index) ==
    IF port_index = 0 THEN now + SendDelayMicros ELSE now

\* what the portions copy from the complete sweep of the tick
SweepHeader(seq, ts) == [sequence_id |-> seq, timestamp |-> ts]

\* an extraction that stamps the portion itself
PortionHeaderRestamped(sweep, port_index) ==
    [timestamp |-> sweep.timestamp + port_index, sequence_id |-> sweep.sequence_id,
     client_id |-> port_index]

\* extract_client_portion without the rows
PortionHeader(sweep, port_index) ==
    [timestamp |-> sweep.timestamp, sequence_id |-> sweep.sequence_id,
     client_id |-> port_index]

\* a write of a portion to the writer stored under an id
Written(client_id, portion) == [to |-> client_id, portion |-> portion]

\* complete_sweep and port_clients live until the send loop is over
InLoop(rest, value, dropped) == IF rest # {} THEN value ELSE dropped

\* ------------------------------------------------------------------ Init
ServerInit ==
    /\ client_counter = 0
    /\ clients = {}
    /\ ready_clients = EmptyMap
    /\ session = [c \in Ids |-> "none"]
    /\ clients_lock = "free"
    /\ bpc = "idle"
    /\ last_ready_count = 0
    /\ sequence_counter = 0
    /\ current_time = 0
    /\ clock = 0
    /\ sweep_timestamp = 0
    /\ complete_sweep = 0
    /\ port_clients = EmptyMap
    /\ pending = {}
    /\ cur_index = NoIndex
    /\ disconnected_clients = {}
    /\ phase = [c \in Ids |-> "new"]
    /\ listener = EmptyMap
    /\ evicted = {}
    /\ last_sent_seq = 0
    /\ reset_since_sent = FALSE
    /\ dropped_since_sent = FALSE
    /\ tick_sent = {}

bcastLocals == <<last_ready_count, sequence_counter, current_time, clock, sweep_timestamp,
                 complete_sweep,
                 port_clients, pending, cur_index, disconnected_clients>>

bcastHist == <<evicted, last_sent_seq, reset_since_sent, dropped_since_sent, tick_sent>>

sessionHist == <<phase, listener>>

\* ------------------------------------------------------ accept and session
\* start_server_on_port: one accepted connection
AcceptWithin(limit) ==
    /\ client_counter < limit
    /\ LET client_id == client_counter
       IN  /\ client_counter' = client_counter + 1
           /\ ready_clients' = Insert(ready_clients, client_id, FALSE)
           /\ session' = [session EXCEPT ![client_id] = "spawned"]
           /\ \E port \in ListenPorts : listener' = Insert(listener, client_id, port)
    /\ UNCHANGED <<clientSide, clients, clients_lock, bpc, bcastLocals, phase, bcastHist>>

Accept == AcceptWithin(MaxClients)

\* the same listeners with one more peer connecting
AcceptCrowd == AcceptWithin(MaxCrowd)

\* handle_client_connection stores the write half before its read loop
StoreWriter(c) ==
    /\ session[c] = "spawned"
    /\ clients_lock = "free"
    /\ clients' = clients \cup {c}
    /\ session' = [session EXCEPT ![c] = "reading"]
    /\ UNCHANGED <<clientSide, client_counter, ready_clients, clients_lock, bpc, bcastLocals,
                   sessionHist, bcastHist>>

\* read returned Ok(0) or Err: first critical section, the transport map
ReadClosed(c) ==
    /\ session[c] = "reading"
    /\ clients_lock = "free"
    /\ clients' = clients \ {c}
    /\ session' = [session EXCEPT ![c] = "closing"]
    /\ phase' = [phase EXCEPT ![c] = "closed"]
    /\ UNCHANGED listener
    /\ UNCHANGED <<clientSide, client_counter, ready_clients, clients_lock, bpc, bcastLocals,
                   bcastHist>>

\* second critical section, the readiness map; then break
Deregister(c) ==
    /\ session[c] = "closing"
    /\ ready_clients' = Remove(ready_clients, c)
    /\ session' = [session EXCEPT ![c] = "done"]
    /\ UNCHANGED <<clientSide, client_counter, clients, clients_lock, bpc, bcastLocals,
                   sessionHist, bcastHist>>

ReadSendData(c) ==
    /\ session[c] = "reading"
    /\ "SEND_DATA" \in Received
    /\ ready_clients' = MarkReady(ready_clients, c)
    /\ phase' = [phase EXCEPT ![c] = IF @ \in {"stopped", "resumed"} THEN "resumed"
                                                                     ELSE "started"]
    /\ UNCHANGED listener
    /\ UNCHANGED <<clientSide, client_counter, clients, session, clients_lock, bpc, bcastLocals,
                   bcastHist>>

ReadStop(c) ==
    /\ session[c] = "reading"
    /\ "STOP" \in Received
    /\ ready_clients' = MarkNotReady(ready_clients, c)
    /\ phase' = [phase EXCEPT ![c] = "stopped"]
    /\ UNCHANGED listener
    /\ UNCHANGED <<clientSide, client_counter, clients, session, clients_lock, bpc, bcastLocals,
                   bcastHist>>

\* any other message: the session takes the transport lock for its reply
ReadUnknown(c) ==
    /\ session[c] = "reading"
    /\ "unknown" \in Received
    /\ clients_lock = "free"
    /\ clients_lock' = "session"
    /\ session' = [session EXCEPT ![c] = "replying"]
    /\ UNCHANGED <<clientSide, client_counter, clients, ready_clients, bpc,
                   bcastLocals, sessionHist, bcastHist>>

\* the error line is written if the id still has a writer; then the lock is
\* dropped and the loop reads again
Reply(c) ==
    /\ session[c] = "replying"
    /\ clients_lock' = "free"
    /\ session' = [session EXCEPT ![c] = "reading"]
    /\ UNCHANGED <<clientSide, client_counter, clients, ready_clients, bpc,
                   bcastLocals, sessionHist, bcastHist>>

\* ------------------------------------------------------------ broadcaster
\* One pass of the loop body up to the two drop() calls, under both locks.
Tick ==
    /\ bpc = "idle"
    /\ clients_lock = "free"
    /\ LET current_ready_count == ReadyCount(ready_clients)
           changed  == current_ready_count # last_ready_count
           do_reset == changed /\ ShouldReset(current_ready_count, last_ready_count)
           counter  == IF do_reset THEN 0 ELSE sequence_counter
       IN  /\ last_ready_count' = IF changed THEN current_ready_count ELSE last_ready_count
           /\ reset_since_sent' = (do_reset \/ reset_since_sent)
           /\ dropped_since_sent' = (current_ready_count < 2 \/ dropped_since_sent)
           /\ IF ShouldSkip(current_ready_count)
              THEN /\ sequence_counter' = counter
                   /\ UNCHANGED <<bpc, current_time, clock, sweep_timestamp, complete_sweep,
                                  port_clients, pending>>
              ELSE /\ current_time < MaxTicks
                   /\ current_time' = current_time + 1
                   /\ clock' = AfterInterval(clock)
                   /\ sweep_timestamp' = AfterInterval(clock)
                   /\ sequence_counter' = NextSequence(counter)
                   /\ \E f \in SelectPortClients(Eligible(ready_clients, clients)) :
                         /\ port_clients' = f
                         /\ pending' = DOMAIN f
                         /\ bpc' = AfterSend(DOMAIN f, {})
                         /\ complete_sweep' = InLoop(DOMAIN f, NextSequence(counter), 0)
    /\ tick_sent' = {}
    /\ UNCHANGED <<clientSide, client_counter, clients, ready_clients, session, clients_lock,
                   cur_index, disconnected_clients, sessionHist, evicted, last_sent_seq>>

\* clients.lock().await at the head of the send loop body, and the lookup
SendLock ==
    /\ bpc = "send"
    /\ clients_lock = "free"
    /\ \E port_index \in pending :
          IF port_clients[port_index] \in clients
          THEN /\ clients_lock' = "broadcaster"
               /\ cur_index' = port_index
               /\ bpc' = "sending"
               /\ UNCHANGED pending
               /\ UNCHANGED <<complete_sweep, port_clients>>
          ELSE /\ pending' = pending \ {port_index}
               /\ bpc' = AfterSend(pending', disconnected_clients)
               /\ complete_sweep' = InLoop(pending', complete_sweep, 0)
               /\ port_clients' = InLoop(pending', port_clients, EmptyMap)
               /\ UNCHANGED <<clients_lock, cur_index>>
    /\ UNCHANGED <<clientSide, client_counter, clients, ready_clients, session, last_ready_count,
                   sequence_counter, current_time, clock, sweep_timestamp,
                   disconnected_clients, sessionHist, bcastHist>>

\* send_radar_data returned Ok: the sweep is on the wire
SendOk ==
    /\ bpc = "sending"
    /\ last_sent_seq' = complete_sweep
    /\ reset_since_sent' = FALSE
    /\ dropped_since_sent' = FALSE
    /\ pending' = pending \ {cur_index}
    /\ bpc' = AfterSend(pending', disconnected_clients)
    /\ complete_sweep' = InLoop(pending', complete_sweep, 0)
    /\ port_clients' = InLoop(pending', port_clients, EmptyMap)
    /\ clients_lock' = "free"
    /\ cur_index' = NoIndex
    /\ tick_sent' = tick_sent \cup {Written(port_clients[cur_index],
                          PortionHeader(SweepHeader(complete_sweep, sweep_timestamp), cur_index))}
    /\ clock' = AfterSendDelay(clock, cur_index)
    /\ UNCHANGED <<clientSide, client_counter, clients, ready_clients, session, last_ready_count,
                   sequence_counter, current_time, sweep_timestamp, disconnected_clients,
                   sessionHist, evicted>>

\* send_radar_data returned Err: the id is queued for removal
SendFail ==
    /\ bpc = "sending"
    /\ disconnected_clients' = disconnected_clients \cup {port_clients[cur_index]}
    /\ pending' = pending \ {cur_index}
    /\ bpc' = AfterSend(pending', disconnected_clients')
    /\ complete_sweep' = InLoop(pending', complete_sweep, 0)
    /\ port_clients' = InLoop(pending', port_clients, EmptyMap)
    /\ clients_lock' = "free"
    /\ cur_index' = NoIndex
    /\ clock' = AfterSendDelay(clock, cur_index)
    /\ UNCHANGED <<clientSide, client_counter, clients, ready_clients, session, last_ready_count,
                   sequence_counter, current_time, sweep_timestamp, sessionHist, bcastHist>>

\* a removal pass that forgets the readiness map
CleanupTransportOnly ==
    /\ bpc = "cleanup"
    /\ clients_lock = "free"
    /\ clients' = clients \ disconnected_clients
    /\ evicted' = evicted \cup disconnected_clients
    /\ disconnected_clients' = {}
    /\ bpc' = "idle"
    /\ UNCHANGED <<clientSide, client_counter, ready_clients, session, clients_lock, last_ready_count,
                   sequence_counter, current_time, clock, sweep_timestamp, complete_sweep,
                   port_clients, pending, cur_index, sessionHist, last_sent_seq, reset_since_sent,
                   dropped_since_sent, tick_sent>>

\* the removal pass after the send loop, under both locks
Cleanup ==
    /\ bpc = "cleanup"
    /\ clients_lock = "free"
    /\ clients' = clients \ disconnected_clients
    /\ ready_clients' = [k \in (DOMAIN ready_clients) \ disconnected_clients |-> ready_clients[k]]
    /\ evicted' = evicted \cup disconnected_clients
    /\ disconnected_clients' = {}
    /\ bpc' = "idle"
    /\ UNCHANGED <<clientSide, client_counter, session, clients_lock, last_ready_count,
                   sequence_counter, current_time, clock, sweep_timestamp, complete_sweep,
                   port_clients, pending, cur_index, sessionHist, last_sent_seq, reset_since_sent, dropped_since_sent,
                   tick_sent>>

Broadcaster == Tick \/ SendLock \/ SendOk \/ SendFail \/ Cleanup

Session(c) ==
    \/ StoreWriter(c)
    \/ ReadSendData(c)
    \/ ReadStop(c)
    \/ ReadUnknown(c)
    \/ Reply(c)
    \/ ReadClosed(c)
    \/ Deregister(c)

\* ------------------------------------------------- extract_client_portion
\* data[a..b] of a Rust slice: rows a, a+1, .. b-1, counted from 0
Slice(rows, a, b) == SubSeq(rows, a + 1, b)

Intensity(seed, az, r) ==
    CASE seed = 0 -> az * RangeBins + r
      [] seed = 1 -> (az % 7) + r
      [] seed = 2 -> 0
      [] OTHER    -> (az * seed + r) % 11

\* a sweep as generate_complete_sweep returns it: 360 rows of RANGE_BINS bins
CompleteSweep(seed, seq, ts) ==
    [timestamp      |-> ts,
     sequence_id    |-> seq,
     azimuth_start  |-> 0,
     azimuth_end    |-> 360,
     range_bins     |-> [r \in 1 .. RangeBins |-> r - 1],
     data           |-> [az \in 1 .. 360 |-> [r \in 1 .. RangeBins |-> Intensity(seed, az - 1, r - 1)]],
     overlap_region |-> <<>>,
     client_id      |-> 999]

AzimuthRange(client_id) ==
    CASE client_id = 0 -> <<0, 190>>
      [] client_id = 1 -> <<170, 360>>
      [] OTHER         -> <<0, 360>>

\* portion 1 cut one row late
ClientDataLate(rows, client_id, start_idx, end_idx) ==
    IF client_id = 0 THEN Slice(rows, start_idx, end_idx)
    ELSE IF client_id = 1 THEN Slice(rows, start_idx + 1, 360)
    ELSE <<>>

ClientData(rows, client_id, start_idx, end_idx) ==
    IF client_id = 0 THEN Slice(rows, start_idx, end_idx)
    ELSE IF client_id = 1 THEN Slice(rows, start_idx, 360)
    ELSE <<>>

\* the overlap cut one row late
OverlapDataLate(rows) == Slice(rows, 171, 191)

OverlapData(rows) == Slice(rows, 170, 190)

extract_client_portion(sweep, client_id) ==
    LET range == AzimuthRange(client_id)
    IN  [timestamp      |-> sweep.timestamp,
         sequence_id    |-> sweep.sequence_id,
         azimuth_start  |-> range[1],
         azimuth_end    |-> range[2],
         range_bins     |-> sweep.range_bins,
         data           |-> ClientData(sweep.data, client_id, range[1], range[2]),
         overlap_region |-> OverlapData(sweep.data),
         client_id      |-> client_id]

PortionIds == 0 .. 2

NoSweep == [client_id |-> 1000]

ExtractIdle ==
    /\ frame = NoSweep
    /\ extracted = [p \in PortionIds |-> NoSweep]

ExtractInit ==
    /\ frame \in {CompleteSweep(seed, seq, ts) :
                    seed \in 0 .. MaxSeed, seq \in 1 .. 2, ts \in {1000, 1050}}
    /\ extracted = [p \in PortionIds |-> NoSweep]

Extract(p) ==
    /\ extracted[p] = NoSweep
    /\ extracted' = [extracted EXCEPT ![p] = extract_client_portion(frame, p)]
    /\ UNCHANGED <<frame, serverSide, mergerVars, bufferVars, wireVars>>

\* -------------------------------------------------- SlidingWindowProcessor
SyncTolerance == 100000

\* u64 and i64 at the width of the model
U64Max == 2 ^ TimestampBits - 1

I64Max == 2 ^ (TimestampBits - 1) - 1

I64Min == 0 - 2 ^ (TimestampBits - 1)

\* `x as i64` of a u64: the same bits, read as two's complement
AsI64(x) == IF x > I64Max THEN x - 2 ^ TimestampBits ELSE x

InI64(v) == I64Min <= v /\ v <= I64Max

\* what an i64 operation leaves when its result does not fit (a build without
\* overflow checks); a build with them panics instead
WrapI64(v) == AsI64(v % (2 ^ TimestampBits))

\* (sweep1.timestamp as i64 - sweep2.timestamp as i64).abs()
TimeDiff(t1, t2) ==
    LET diff    == AsI64(t1) - AsI64(t2)
        wrapped == WrapI64(diff)
        abs     == IF wrapped < 0 THEN 0 - wrapped ELSE wrapped
    IN  [overflow |-> ~InI64(diff) \/ ~InI64(abs), value |-> WrapI64(abs)]

\* a tolerance of half the width
WithinHalfTolerance(time_diff) == 2 * time_diff < SyncTolerance

WithinTolerance(time_diff) == time_diff < SyncTolerance

\* the if / if of the inner loop body: the pair is returned
Synchronized(sweep1, sweep2) ==
    /\ sweep1.sequence_id = sweep2.sequence_id
    /\ WithinTolerance(TimeDiff(sweep1.timestamp, sweep2.timestamp).value)

\* the arithmetic of the inner loop body panics (overflow checks on)
Panics(sweep1, sweep2) ==
    /\ sweep1.sequence_id = sweep2.sequence_id
    /\ TimeDiff(sweep1.timestamp, sweep2.timestamp).overflow

\* a pairing that leaves the paired entry in its window
KeepAt(w, i) == w

\* a removal that always takes the oldest entry
RemoveOldest(w, i) == Tail(w)

RemoveAt(w, i) == SubSeq(w, 1, i - 1) \o SubSeq(w, i + 1, Len(w))

\* a window that drops the arriving entry when it is full
PushKeepOldest(w, sweep, capacity) ==
    IF Len(w) + 1 > capacity THEN w ELSE Append(w, sweep)

\* a window that never pops
PushUnbounded(w, sweep, capacity) == Append(w, sweep)

PushBounded(w, sweep, capacity) ==
    LET pushed == Append(w, sweep)
    IN  IF Len(pushed) > capacity THEN Tail(pushed) ELSE pushed

\* what pop_front took out of the window, as a set
Popped(w, sweep, capacity) ==
    IF Len(w) + 1 > capacity THEN {Head(Append(w, sweep))} ELSE {}

\* the pairs at which the two nested loops stop, and the one they reach first
StoppingPairs(w1, w2, overflow_checks) ==
    {p \in (1 .. Len(w1)) \X (1 .. Len(w2)) :
        \/ Synchronized(w1[p[1]], w2[p[2]])
        \/ overflow_checks /\ Panics(w1[p[1]], w2[p[2]])}

FirstPair(pairs) ==
    CHOOSE p \in pairs : \A q \in pairs : p[1] < q[1] \/ (p[1] = q[1] /\ p[2] <= q[2])

\* a sweep that carries no rows: what bincode decodes from a header with
\* empty vectors
HeaderSweep(seq, ts) ==
    [timestamp      |-> ts,
     sequence_id    |-> seq,
     azimuth_start  |-> 0,
     azimuth_end    |-> 0,
     range_bins     |-> <<>>,
     data           |-> <<>>,
     overlap_region |-> <<>>,
     client_id      |-> 0]

\* the two portions the server cuts from one sweep, stamped 50 apart
PortionSweeps ==
    {extract_client_portion(CompleteSweep(0, 5, 1000), 0),
     extract_client_portion(CompleteSweep(0, 5, 1050), 1)}

\* sweeps as they come off the two links: the two portions, sweeps of the
\* same sequence_id stamped around one tolerance later, with the top bit set
\* and equal to the top bit, and sweeps of another sequence_id
ReceivedSweeps ==
    PortionSweeps
    \cup {HeaderSweep(5, ts) : ts \in {101000, 151000, U64Max, I64Max + 1}}
    \cup {HeaderSweep(6, ts) : ts \in {1000, 1050}}

Min(a, b) == IF a < b THEN a ELSE b

Max(a, b) == IF a > b THEN a ELSE b

\* an average that forgets to halve
AverageUnhalved(a, b) == a + b

\* (a + b) / 2.0
Average(a, b) == (a + b) \div 2

\* r1.iter().zip(r2.iter()).map(..): as long as the shorter row
AverageRow(r1, r2) == [k \in 1 .. Min(Len(r1), Len(r2)) |-> Average(r1[k], r2[k])]

\* a merge that leaves the overlap rows out
OverlapLeftOut(overlap1, overlap2) == <<>>

merge_overlap_region(overlap1, overlap2) ==
    [i \in 1 .. Max(Len(overlap1), Len(overlap2)) |->
        IF i <= Len(overlap1) /\ i <= Len(overlap2) THEN AverageRow(overlap1[i], overlap2[i])
        ELSE IF i <= Len(overlap1) THEN overlap1[i]
        ELSE overlap2[i]]

\* a merge that forgets to skip the overlap rows of the second portion
MergeSweepsKeepOverlap(client1, client2) ==
    [sequence_id        |-> client1.sequence_id,
     timestamp          |-> client1.timestamp,
     range_bins         |-> client1.range_bins,
     complete_data      |-> Slice(client1.data, 0, Min(170, Len(client1.data)))
                            \o merge_overlap_region(client1.overlap_region,
                                                    client2.overlap_region)
                            \o client2.data,
     azimuth_resolution |-> 1]

merge_sweeps(client1, client2) ==
    LET client1_main   == Slice(client1.data, 0, Min(170, Len(client1.data)))
        overlap_merged == merge_overlap_region(client1.overlap_region, client2.overlap_region)
        client2_main   == IF Len(client2.data) > 20
                          THEN Slice(client2.data, 20, Len(client2.data))
                          ELSE <<>>
    IN  [sequence_id        |-> client1.sequence_id,
         timestamp          |-> client1.timestamp,
         range_bins         |-> client1.range_bins,
         complete_data      |-> client1_main \o overlap_merged \o client2_main,
         azimuth_resolution |-> 1]

NoMerge == [found |-> FALSE, panicked |-> FALSE]

Panicked == [found |-> FALSE, panicked |-> TRUE]

MergerIdle ==
    /\ client1_data = <<>>
    /\ client2_data = <<>>
    /\ processed_frames = 0
    /\ arrivals = 0
    /\ evicted_sweeps = {}
    /\ merge_result = NoMerge
    /\ merged_ids = {}

add_client_data(client_id, sweep) ==
    /\ ~merge_result.panicked
    /\ arrivals < MaxArrivals
    /\ arrivals' = arrivals + 1
    /\ CASE client_id = 0 ->
              /\ client1_data' = PushBounded(client1_data, sweep, WindowSize)
              /\ evicted_sweeps' = evicted_sweeps \cup
                    {<<0, e>> : e \in Popped(client1_data, sweep, WindowSize)}
              /\ UNCHANGED client2_data
         [] client_id = 1 ->
              /\ client2_data' = PushBounded(client2_data, sweep, WindowSize)
              /\ evicted_sweeps' = evicted_sweeps \cup
                    {<<1, e>> : e \in Popped(client2_data, sweep, WindowSize)}
              /\ UNCHANGED client1_data
         [] OTHER -> UNCHANGED <<client1_data, client2_data, evicted_sweeps>>
    /\ UNCHANGED <<processed_frames, merge_result, merged_ids, serverSide, extractVars,
                   bufferVars, wireVars>>

\* try_merge_next_frame with find_synchronized_pair; the build decides
\* whether an overflowing subtraction or abs() panics or wraps
try_merge_next_frame ==
    /\ ~merge_result.panicked
    /\ \E overflow_checks \in BOOLEAN :
          LET pairs == StoppingPairs(client1_data, client2_data, overflow_checks)
          IN  IF pairs = {}
              THEN /\ merge_result' = NoMerge
                   /\ UNCHANGED <<client1_data, client2_data, processed_frames, merged_ids>>
              ELSE LET p  == FirstPair(pairs)
                       s1 == client1_data[p[1]]
                       s2 == client2_data[p[2]]
                   IN  IF overflow_checks /\ Panics(s1, s2)
                       THEN /\ merge_result' = Panicked
                            /\ UNCHANGED <<client1_data, client2_data, processed_frames,
                                           merged_ids>>
                       ELSE /\ client1_data' = RemoveAt(client1_data, p[1])
                            /\ client2_data' = RemoveAt(client2_data, p[2])
                            /\ processed_frames' = processed_frames + 1
                            /\ merge_result' = [found |-> TRUE, panicked |-> FALSE,
                                                sweep1 |-> s1, sweep2 |-> s2,
                                                frame |-> merge_sweeps(s1, s2)]
                            /\ merged_ids' = merged_ids \cup {merge_sweeps(s1, s2).sequence_id}
    /\ UNCHANGED <<arrivals, evicted_sweeps, serverSide, extractVars, bufferVars, wireVars>>

\* --------------------------------------------------------- specifications
\* ------------------------------------------------------------ DoubleBuffer
\* DoubleBuffer::new
BufferIdle ==
    /\ front_buffer = <<>>
    /\ back_buffer = <<>>
    /\ current_front = TRUE
    /\ adds = 0
    /\ batch = <<>>
    /\ added_since_swap = <<>>
    /\ popped_since_swap = {}
    /\ swapped_out = {}

\* the buffer the receiver writes to
ActiveBuffer == IF current_front THEN front_buffer ELSE back_buffer

InactiveBuffer == IF current_front THEN back_buffer ELSE front_buffer

front_buffer_size == Len(ActiveBuffer)

\* an add that pops the sweep it has just pushed
PushPopNewest(buffer, sweep, max_size) ==
    IF Len(buffer) + 1 > max_size THEN buffer ELSE Append(buffer, sweep)

\* push_back, then pop_front when the length exceeds max_buffer_size
PushPopFront(buffer, sweep, max_size) ==
    IF Len(buffer) + 1 > max_size THEN Tail(Append(buffer, sweep)) ELSE Append(buffer, sweep)

\* what pop_front removed, if it ran
PoppedFront(buffer, sweep, max_size) ==
    IF Len(buffer) + 1 > max_size THEN {Head(Append(buffer, sweep))} ELSE {}

\* a take that leaves the contents behind
MemClone(buffer) == buffer

\* what std::mem::take leaves in place of the buffer
MemTake(buffer) == <<>>

\* the sweeps the receiver hands over are told apart by their arrival number
ArrivingSweep(n) == [arrival |-> n]

add_sweep(sweep) ==
    /\ adds < MaxAdds
    /\ adds' = adds + 1
    /\ IF current_front
       THEN /\ front_buffer' = PushPopFront(front_buffer, sweep, MaxBufferSize)
            /\ UNCHANGED back_buffer
       ELSE /\ back_buffer' = PushPopFront(back_buffer, sweep, MaxBufferSize)
            /\ UNCHANGED front_buffer
    /\ added_since_swap' = Append(added_since_swap, sweep)
    /\ popped_since_swap' = popped_since_swap \cup
                               PoppedFront(ActiveBuffer, sweep, MaxBufferSize)
    /\ UNCHANGED <<current_front, batch, swapped_out, serverSide, extractVars, mergerVars,
                   wireVars>>

swap_buffers ==
    /\ current_front' = ~current_front
    /\ IF current_front'
       THEN /\ batch' = back_buffer
            /\ back_buffer' = MemTake(back_buffer)
            /\ UNCHANGED front_buffer
       ELSE /\ batch' = front_buffer
            /\ front_buffer' = MemTake(front_buffer)
            /\ UNCHANGED back_buffer
    /\ added_since_swap' = <<>>
    /\ popped_since_swap' = {}
    /\ swapped_out' = swapped_out \cup {batch'[i] : i \in DOMAIN batch'}
    /\ UNCHANGED <<adds, serverSide, extractVars, mergerVars, wireVars>>

\* process_radar_data: swap only a buffer that holds something
TakeBatch ==
    IF front_buffer_size > 0
    THEN swap_buffers
    ELSE /\ batch # <<>>
         /\ batch' = <<>>
         /\ UNCHANGED <<front_buffer, back_buffer, current_front, adds, added_since_swap,
                        popped_since_swap, swapped_out, serverSide, extractVars, mergerVars,
                        wireVars>>

\* ------------------------------------------------ the framed sweep stream
\* fixed-width integers on the wire
RECURSIVE BigEndian(_, _)
BigEndian(n, width) ==
    IF width = 0 THEN <<>> ELSE Append(BigEndian(n \div 256, width - 1), n % 256)

RECURSIVE FromBigEndian(_)
FromBigEndian(bytes) ==
    IF bytes = <<>>
    THEN 0
    ELSE 256 * FromBigEndian(SubSeq(bytes, 1, Len(bytes) - 1)) + bytes[Len(bytes)]

RECURSIVE LittleEndian(_, _)
LittleEndian(n, width) ==
    IF width = 0 THEN <<>> ELSE <<n % 256>> \o LittleEndian(n \div 256, width - 1)

RECURSIVE FromLittleEndian(_)
FromLittleEndian(bytes) ==
    IF bytes = <<>> THEN 0 ELSE Head(bytes) + 256 * FromLittleEndian(Tail(bytes))

\* bincode: a Vec<f32> is its length as a u64 and then four bytes per element
\* (an f32 stands in the model for its bit pattern, a natural number)
RECURSIVE SerializeElements(_)
SerializeElements(v) ==
    IF v = <<>> THEN <<>> ELSE LittleEndian(Head(v), 4) \o SerializeElements(Tail(v))

SerializeVec(v) == LittleEndian(Len(v), 8) \o SerializeElements(v)

RECURSIVE SerializeEachRow(_)
SerializeEachRow(rows) ==
    IF rows = <<>> THEN <<>> ELSE SerializeVec(Head(rows)) \o SerializeEachRow(Tail(rows))

SerializeRows(rows) == LittleEndian(Len(rows), 8) \o SerializeEachRow(rows)

\* bincode::serialize(radar_sweep): the fields in declaration order
Serialize(sweep) ==
    LittleEndian(sweep.timestamp, 8) \o LittleEndian(sweep.sequence_id, 8) \o
    LittleEndian(sweep.azimuth_start, 4) \o LittleEndian(sweep.azimuth_end, 4) \o
    SerializeVec(sweep.range_bins) \o SerializeRows(sweep.data) \o
    SerializeRows(sweep.overlap_region) \o LittleEndian(sweep.client_id, 8)

\* the decoder's cursor: a value and the bytes after it
TakeInt(bytes, width) ==
    [value |-> FromLittleEndian(SubSeq(bytes, 1, width)),
     rest  |-> SubSeq(bytes, width + 1, Len(bytes))]

RECURSIVE TakeElements(_, _)
TakeElements(bytes, count) ==
    IF count = 0
    THEN [value |-> <<>>, rest |-> bytes]
    ELSE LET first  == TakeInt(bytes, 4)
             others == TakeElements(first.rest, count - 1)
         IN  [value |-> <<first.value>> \o others.value, rest |-> others.rest]

TakeVec(bytes) ==
    LET count == TakeInt(bytes, 8) IN TakeElements(count.rest, count.value)

RECURSIVE TakeEachRow(_, _)
TakeEachRow(bytes, count) ==
    IF count = 0
    THEN [value |-> <<>>, rest |-> bytes]
    ELSE LET first  == TakeVec(bytes)
             others == TakeEachRow(first.rest, count - 1)
         IN  [value |-> <<first.value>> \o others.value, rest |-> others.rest]

TakeRows(bytes) ==
    LET count == TakeInt(bytes, 8) IN TakeEachRow(count.rest, count.value)

\* bincode::deserialize(&data_buffer)
Deserialize(bytes) ==
    LET timestamp      == TakeInt(bytes, 8)
        sequence_id    == TakeInt(timestamp.rest, 8)
        azimuth_start  == TakeInt(sequence_id.rest, 4)
        azimuth_end    == TakeInt(azimuth_start.rest, 4)
        range_bins     == TakeVec(azimuth_end.rest)
        data           == TakeRows(range_bins.rest)
        overlap_region == TakeRows(data.rest)
        client_id      == TakeInt(overlap_region.rest, 8)
    IN  [timestamp      |-> timestamp.value,
         sequence_id    |-> sequence_id.value,
         azimuth_start  |-> azimuth_start.value,
         azimuth_end    |-> azimuth_end.value,
         range_bins     |-> range_bins.value,
         data           |-> data.value,
         overlap_region |-> overlap_region.value,
         client_id      |-> client_id.value]

\* a prefix that counts its own eight bytes
FrameCountingPrefix(encoded_data) ==
    BigEndian(Len(encoded_data) + 8, 8) \o encoded_data

\* write_u64(encoded_data.len()), then write_all(&encoded_data)
Frame(encoded_data) == BigEndian(Len(encoded_data), 8) \o encoded_data

\* the sweeps the server is asked to write: two without rows and one portion
\* with two rows of two bins and one overlap row
WireSweeps ==
    {HeaderSweep(1, 1000), HeaderSweep(2, 1050),
     [HeaderSweep(3, U64Max) EXCEPT !.azimuth_start = 170, !.azimuth_end = 360,
                                    !.range_bins = <<0, 1>>,
                                    !.data = <<<<3, 4>>, <<5, 300>>>>,
                                    !.overlap_region = <<<<5, 300>>>>,
                                    !.client_id = 1]}

\* where a failing write can stop: before the prefix, inside it, after it,
\* and one byte short of the end
BreakPoints(bytes) == {0, 4, 8, Len(bytes) - 1}

\* the sizes in which the transport hands bytes over: one byte, what is left
\* of an eight-byte word, or everything written so far
PieceSizes(bytes) == {1, 8, Len(bytes)} \cap (1 .. Len(bytes))

NoSize == 0

WireIdle ==
    /\ connection = "open"
    /\ in_flight = <<>>
    /\ rx_bytes = <<>>
    /\ reader = "size"
    /\ data_size = NoSize
    /\ wire_sent = <<>>
    /\ wire_received = <<>>

\* send_radar_data returns Ok
send_radar_data(radar_sweep) ==
    /\ connection = "open"
    /\ Len(wire_sent) < MaxFrames
    /\ in_flight' = in_flight \o Frame(Serialize(radar_sweep))
    /\ wire_sent' = Append(wire_sent, radar_sweep)
    /\ UNCHANGED <<connection, rx_bytes, reader, data_size, wire_received,
                   serverSide, extractVars, mergerVars, bufferVars>>

\* send_radar_data returns Err: the connection broke after some of the bytes
SendBroken(radar_sweep, written) ==
    /\ connection = "open"
    /\ Len(wire_sent) < MaxFrames
    /\ in_flight' = in_flight \o SubSeq(Frame(Serialize(radar_sweep)), 1, written)
    /\ connection' = "broken"
    /\ UNCHANGED <<wire_sent, rx_bytes, reader, data_size, wire_received,
                   serverSide, extractVars, mergerVars, bufferVars>>

\* the transport hands the next bytes to the client, in pieces
Deliver(count) ==
    /\ count \in 1 .. Len(in_flight)
    /\ rx_bytes' = rx_bytes \o SubSeq(in_flight, 1, count)
    /\ in_flight' = SubSeq(in_flight, count + 1, Len(in_flight))
    /\ UNCHANGED <<connection, reader, data_size, wire_sent, wire_received,
                   serverSide, extractVars, mergerVars, bufferVars>>

\* a size of 2^24 or more: more bytes than the reader is ever sent
Oversize == 2 ^ 24

\* the eight bytes as a u64, as far as it can matter to the reader
ReadU64(bytes) ==
    IF \E i \in 1 .. 5 : bytes[i] # 0 THEN Oversize ELSE FromBigEndian(SubSeq(bytes, 6, 8))

\* receive_radar_data: stream.read_u64()
ReadSize ==
    /\ reader = "size"
    /\ Len(rx_bytes) >= 8
    /\ data_size' = ReadU64(SubSeq(rx_bytes, 1, 8))
    /\ rx_bytes' = SubSeq(rx_bytes, 9, Len(rx_bytes))
    /\ reader' = "payload"
    /\ UNCHANGED <<connection, in_flight, wire_sent, wire_received,
                   serverSide, extractVars, mergerVars, bufferVars>>

\* receive_radar_data: read_exact(&mut data_buffer), bincode::deserialize
ReadPayload ==
    /\ reader = "payload"
    /\ Len(rx_bytes) >= data_size
    /\ wire_received' = Append(wire_received, Deserialize(SubSeq(rx_bytes, 1, data_size)))
    /\ rx_bytes' = SubSeq(rx_bytes, data_size + 1, Len(rx_bytes))
    /\ reader' = "size"
    /\ UNCHANGED <<connection, in_flight, data_size, wire_sent,
                   serverSide, extractVars, mergerVars, bufferVars>>

\* the stream ended before the bytes the reader waits for: `?` returns Err
ReadEof ==
    /\ reader \in {"size", "payload"}
    /\ connection = "broken"
    /\ in_flight = <<>>
    /\ Len(rx_bytes) < (IF reader = "size" THEN 8 ELSE data_size)
    /\ reader' = "failed"
    /\ UNCHANGED <<connection, in_flight, rx_bytes, data_size, wire_sent, wire_received,
                   serverSide, extractVars, mergerVars, bufferVars>>

\* vec![0u8; data_size] cannot be allocated: the client aborts (or else
\* read_exact waits for bytes that are never sent)
ReadOversize ==
    /\ reader = "payload"
    /\ data_size >= Oversize
    /\ reader' = "failed"
    /\ UNCHANGED <<connection, in_flight, rx_bytes, data_size, wire_sent, wire_received,
                   serverSide, extractVars, mergerVars, bufferVars>>

\* ------------------------------------- the two writers of one connection
NoReply == <<>>

WriterIdle ==
    /\ sending = [pc |-> "idle", radar_sweep |-> NoSweep]
    /\ error_response = NoReply
    /\ wire_log = <<>>

\* a writer that does not wait for the transport map
LockIgnored(lock) == TRUE

\* clients.lock().await returns when no other guard is alive
LockFree(lock) == lock = "free"

\* format!("Unknown command: '{}'\n", message) as bytes
ReplyText(message) ==
    <<85, 110, 107, 110, 111, 119, 110, 32, 99, 111, 109, 109, 97, 110, 100, 58, 32, 39>>
    \o message \o <<39, 10>>

\* trimmed messages that are neither command, as bytes: "" and "x"
UnknownTexts == {<<>>, <<120>>}

Replies(log) == SelectSeq(log, LAMBDA write : write.kind = "reply")

WriteOf(kind, bytes) == [kind |-> kind, bytes |-> bytes]

\* the send loop finds the writer and calls send_radar_data
SendStart(radar_sweep) ==
    /\ sending.pc = "idle"
    /\ connection = "open"
    /\ Len(wire_sent) < MaxFrames
    /\ LockFree(clients_lock)
    /\ clients_lock' = "broadcaster"
    /\ sending' = [pc |-> "size", radar_sweep |-> radar_sweep]
    /\ UNCHANGED <<error_response, wire_log, wireVars, extractVars, mergerVars, bufferVars,
                   linkVars, lockVars, commandVars, client_counter, clients, ready_clients, session, bpc,
                   bcastLocals, sessionHist, bcastHist>>

\* stream.write_u64(encoded_data.len() as u64)
WriteSize ==
    /\ sending.pc = "size"
    /\ LET size == BigEndian(Len(Serialize(sending.radar_sweep)), 8)
       IN  /\ in_flight' = in_flight \o size
           /\ wire_log' = Append(wire_log, WriteOf("size", size))
    /\ sending' = [sending EXCEPT !.pc = "payload"]
    /\ UNCHANGED <<error_response, connection, rx_bytes, reader, data_size, wire_sent,
                   wire_received, serverVars, extractVars, mergerVars, bufferVars, linkVars,
                   lockVars, commandVars>>

\* stream.write_all(&encoded_data): its first write takes half of the bytes
WritePayload ==
    /\ sending.pc = "payload"
    /\ LET encoded_data == Serialize(sending.radar_sweep)
           part == SubSeq(encoded_data, 1, Len(encoded_data) \div 2)
       IN  /\ in_flight' = in_flight \o part
           /\ wire_log' = Append(wire_log, WriteOf("payload", part))
    /\ sending' = [sending EXCEPT !.pc = "rest"]
    /\ UNCHANGED <<error_response, connection, rx_bytes, reader, data_size, wire_sent,
                   wire_received, serverVars, extractVars, mergerVars, bufferVars, linkVars,
                   lockVars, commandVars>>

\* the rest of write_all, flush, Ok(()), and the guard dropped at the end of
\* the iteration
WritePayloadRest ==
    /\ sending.pc = "rest"
    /\ LET encoded_data == Serialize(sending.radar_sweep)
           part == SubSeq(encoded_data, Len(encoded_data) \div 2 + 1, Len(encoded_data))
       IN  /\ in_flight' = in_flight \o part
           /\ wire_log' = Append(wire_log, WriteOf("rest", part))
    /\ wire_sent' = Append(wire_sent, sending.radar_sweep)
    /\ sending' = [pc |-> "idle", radar_sweep |-> NoSweep]
    /\ clients_lock' = "free"
    /\ UNCHANGED <<error_response, connection, rx_bytes, reader, data_size, wire_received,
                   extractVars, mergerVars, bufferVars, linkVars, lockVars, commandVars, client_counter,
                   clients, ready_clients, session, bpc, bcastLocals, sessionHist, bcastHist>>

\* one of the writes returns Err: send_radar_data returns it, the id is
\* queued for removal and the guard is dropped
WriteFails ==
    /\ sending.pc \in {"size", "payload", "rest"}
    /\ connection' = "broken"
    /\ sending' = [pc |-> "idle", radar_sweep |-> NoSweep]
    /\ clients_lock' = "free"
    /\ UNCHANGED <<error_response, wire_log, in_flight, rx_bytes, reader, data_size, wire_sent,
                   wire_received, extractVars, mergerVars, bufferVars, linkVars, lockVars, commandVars,
                   client_counter, clients, ready_clients, session, bpc, bcastLocals,
                   sessionHist, bcastHist>>

\* the session has read a message that is neither command
UnknownCommand(message) ==
    /\ error_response = NoReply
    /\ Len(Replies(wire_log)) < MaxReplies
    /\ LockFree(clients_lock)
    /\ clients_lock' = "session"
    /\ error_response' = ReplyText(message)
    /\ UNCHANGED <<sending, wire_log, wireVars, extractVars, mergerVars, bufferVars,
                   linkVars, lockVars, commandVars, client_counter, clients, ready_clients, session, bpc,
                   bcastLocals, sessionHist, bcastHist>>

\* writer.write_all(error_response.as_bytes()); a failure is only printed
WriteReply ==
    /\ error_response # NoReply
    /\ IF connection = "open"
       THEN /\ in_flight' = in_flight \o error_response
            /\ wire_log' = Append(wire_log, WriteOf("reply", error_response))
       ELSE UNCHANGED <<in_flight, wire_log>>
    /\ error_response' = NoReply
    /\ clients_lock' = "free"
    /\ UNCHANGED <<sending, connection, rx_bytes, reader, data_size, wire_sent, wire_received,
                   extractVars, mergerVars, bufferVars, linkVars, lockVars, commandVars, client_counter,
                   clients, ready_clients, session, bpc, bcastLocals, sessionHist, bcastHist>>

\* ----------------------------------------- the commands of one connection
\* the two commands as the clients write them: b"SEND_DATA", b"STOP"
SendDataText == <<"S", "E", "N", "D", "_", "D", "A", "T", "A">>

StopText == <<"S", "T", "O", "P">>

CommandText(command) == IF command = "SEND_DATA" THEN SendDataText ELSE StopText

\* error_response.as_bytes(): the characters of the commands in UTF-8
CharCode ==
    [ch \in {"S", "E", "N", "D", "_", "A", "T", "O", "P"} |->
        CASE ch = "S" -> 83 [] ch = "E" -> 69 [] ch = "N" -> 78 [] ch = "D" -> 68
          [] ch = "_" -> 95 [] ch = "A" -> 65 [] ch = "T" -> 84 [] ch = "O" -> 79
          [] ch = "P" -> 80]

AsBytes(text) == [i \in DOMAIN text |-> CharCode[text[i]]]

\* the buffer handed to reader.read()
ReadBufferSize == 1024

\* reader.read(&mut buffer) returns Ok(n): any number of the bytes that have
\* arrived, whatever write they came from
ReadReturns(bytes, n) == n \in 1 .. Min(Len(bytes), ReadBufferSize)

CommandIdle ==
    /\ commands_written = <<>>
    /\ command_bytes = <<>>
    /\ applied = <<>>

\* stream.write_all(b"SEND_DATA") or stream.write_all(b"STOP"), and flush
WriteCommand(command) ==
    /\ Len(commands_written) < MaxCommands
    /\ commands_written' = Append(commands_written, command)
    /\ command_bytes' = command_bytes \o CommandText(command)
    /\ UNCHANGED <<applied, serverVars, extractVars, mergerVars, bufferVars, wireVars,
                   linkVars, lockVars, writerVars>>

\* one pass of the session's read loop over Ok(n), n > 0
ReadCommand(c, n) ==
    /\ session[c] = "reading"
    /\ ReadReturns(command_bytes, n)
    /\ clients_lock = "free"
    /\ command_bytes' = SubSeq(command_bytes, n + 1, Len(command_bytes))
    /\ LET message == Trim(SubSeq(command_bytes, 1, n))
       IN  CASE message = SendDataText ->
                  /\ ready_clients' = MarkReady(ready_clients, c)
                  /\ phase' = [phase EXCEPT ![c] = IF @ \in {"stopped", "resumed"}
                                                   THEN "resumed" ELSE "started"]
                  /\ applied' = Append(applied, "SEND_DATA")
                  /\ UNCHANGED <<in_flight, wire_log>>
             [] message = StopText ->
                  /\ ready_clients' = MarkNotReady(ready_clients, c)
                  /\ phase' = [phase EXCEPT ![c] = "stopped"]
                  /\ applied' = Append(applied, "STOP")
                  /\ UNCHANGED <<in_flight, wire_log>>
             [] OTHER ->
                  /\ IF c \in clients
                     THEN /\ in_flight' = in_flight \o ReplyText(AsBytes(message))
                          /\ wire_log' = Append(wire_log,
                                                WriteOf("reply", ReplyText(AsBytes(message))))
                     ELSE UNCHANGED <<in_flight, wire_log>>
                  /\ UNCHANGED <<ready_clients, phase, applied>>
    /\ UNCHANGED <<commands_written, sending, error_response, connection, rx_bytes, reader,
                   data_size, wire_sent, wire_received, extractVars, mergerVars, bufferVars,
                   linkVars, lockVars, client_counter, clients, session, clients_lock, bpc,
                   bcastLocals, listener, bcastHist>>

\* nothing read off the links yet
LinkIdle == link_received = {}

\* ------------------------------------------- the tasks at the two mutexes
\* ClientConnections and ReadyClients, each an Arc<Mutex<HashMap>>
Registries == {"clients", "ready_clients"}

\* the broadcaster, one accept loop per listening port, one session per
\* connection
LockTasks ==
    {<<"broadcaster", 0>>}
    \cup {<<"accept", port>> : port \in ListenPorts}
    \cup {<<"session", c>> : c \in 0 .. (MaxClients - 1)}

NoTask == <<"none", 0>>

Lock(registry) == <<"lock", registry>>

Drop(registry) == <<"drop", registry>>

Spawned(c) == <<"spawn", c>>

\* the head of the broadcaster's loop body: both guards, dropped in the
\* order ready_map, clients_map on every path
TickLocks == <<Lock("clients"), Lock("ready_clients"), Drop("ready_clients"), Drop("clients")>>

\* one iteration of the send loop: the guard lives to the end of the body
SendLocks == <<Lock("clients"), Drop("clients")>>

\* the removal pass
CleanupLocks == <<Lock("clients"), Lock("ready_clients"), Drop("ready_clients"), Drop("clients")>>

RECURSIVE Times(_, _)
Times(statements, n) == IF n = 0 THEN <<>> ELSE statements \o Times(statements, n - 1)

\* one pass of the broadcaster: a tick, a send per selected connection, and
\* the removal pass if a send has failed
BroadcasterPasses ==
    {TickLocks \o Times(SendLocks, n) : n \in 0 .. 2}
    \cup {TickLocks \o Times(SendLocks, n) \o CleanupLocks : n \in 1 .. 2}

\* accept: the readiness entry, then the session is spawned
AcceptLocks(c) == <<Lock("ready_clients"), Drop("ready_clients"), Spawned(c)>>

\* handle_client_connection storing the write half
StoreLocks == <<Lock("clients"), Drop("clients")>>

\* SEND_DATA and STOP
CommandLocks == <<Lock("ready_clients"), Drop("ready_clients")>>

\* any other message: the guard is held while the reply is written
UnknownLocks == <<Lock("clients"), Drop("clients")>>

\* a removal that takes the second guard inside the first, in the other order
ClosedLocksNested == <<Lock("ready_clients"), Lock("clients"), Drop("clients"), Drop("ready_clients")>>

\* Ok(0) and Err: two blocks, one guard each
ClosedLocks == <<Lock("clients"), Drop("clients"), Lock("ready_clients"), Drop("ready_clients")>>

LockIdle ==
    /\ holder = [registry \in Registries |-> NoTask]
    /\ todo = [t \in LockTasks |-> <<>>]
    /\ stage = [t \in LockTasks |-> IF t[1] = "session" THEN "none" ELSE "loop"]

\* interval.tick() returned
BroadcasterPass ==
    /\ todo[<<"broadcaster", 0>>] = <<>>
    /\ \E pass \in BroadcasterPasses : todo' = [todo EXCEPT ![<<"broadcaster", 0>>] = pass]
    /\ UNCHANGED <<holder, stage, serverVars, extractVars, mergerVars, bufferVars, wireVars,
                   linkVars, writerVars, commandVars>>

\* listener.accept() returned on one port: fetch_add hands out the next id
AcceptConnection(port) ==
    /\ todo[<<"accept", port>>] = <<>>
    /\ \E c \in 0 .. (MaxClients - 1) :
          /\ stage[<<"session", c>>] = "none"
          /\ \A d \in 0 .. (c - 1) : stage[<<"session", d>>] # "none"
          /\ todo' = [todo EXCEPT ![<<"accept", port>>] = AcceptLocks(c)]
          /\ stage' = [stage EXCEPT ![<<"session", c>>] = "accepted"]
    /\ UNCHANGED <<holder, serverVars, extractVars, mergerVars, bufferVars, wireVars, linkVars, writerVars, commandVars>>

\* the session task starts
SessionStore(c) ==
    /\ stage[<<"session", c>>] = "spawned"
    /\ todo' = [todo EXCEPT ![<<"session", c>>] = StoreLocks]
    /\ stage' = [stage EXCEPT ![<<"session", c>>] = "reading"]
    /\ UNCHANGED <<holder, serverVars, extractVars, mergerVars, bufferVars, wireVars, linkVars, writerVars, commandVars>>

\* reader.read() returned a message
SessionRead(c) ==
    /\ stage[<<"session", c>>] = "reading"
    /\ todo[<<"session", c>>] = <<>>
    /\ \E branch \in {CommandLocks, UnknownLocks} :
          todo' = [todo EXCEPT ![<<"session", c>>] = branch]
    /\ UNCHANGED <<holder, stage, serverVars, extractVars, mergerVars, bufferVars, wireVars,
                   linkVars, writerVars, commandVars>>

\* reader.read() returned Ok(0) or Err: the session removes itself and ends
SessionClosed(c) ==
    /\ stage[<<"session", c>>] = "reading"
    /\ todo[<<"session", c>>] = <<>>
    /\ todo' = [todo EXCEPT ![<<"session", c>>] = ClosedLocks]
    /\ stage' = [stage EXCEPT ![<<"session", c>>] = "closing"]
    /\ UNCHANGED <<holder, serverVars, extractVars, mergerVars, bufferVars, wireVars, linkVars, writerVars, commandVars>>

\* lock().await returns once the mutex is free
Acquire(t) ==
    /\ todo[t] # <<>>
    /\ Head(todo[t])[1] = "lock"
    /\ holder[Head(todo[t])[2]] = NoTask
    /\ holder' = [holder EXCEPT ![Head(todo[t])[2]] = t]
    /\ todo' = [todo EXCEPT ![t] = Tail(@)]
    /\ UNCHANGED <<stage, serverVars, extractVars, mergerVars, bufferVars, wireVars, linkVars, writerVars, commandVars>>

\* the guard goes out of scope or is dropped
Release(t) ==
    /\ todo[t] # <<>>
    /\ Head(todo[t])[1] = "drop"
    /\ holder' = [holder EXCEPT ![Head(todo[t])[2]] = NoTask]
    /\ todo' = [todo EXCEPT ![t] = Tail(@)]
    /\ UNCHANGED <<stage, serverVars, extractVars, mergerVars, bufferVars, wireVars, linkVars, writerVars, commandVars>>

\* spawn(handle_client_connection(..))
SpawnSession(t) ==
    /\ todo[t] # <<>>
    /\ Head(todo[t])[1] = "spawn"
    /\ stage' = [stage EXCEPT ![<<"session", Head(todo[t])[2]>>] = "spawned"]
    /\ todo' = [todo EXCEPT ![t] = Tail(@)]
    /\ UNCHANGED <<holder, serverVars, extractVars, mergerVars, bufferVars, wireVars, linkVars, writerVars, commandVars>>

Init == ServerInit /\ ExtractIdle /\ MergerIdle /\ BufferIdle /\ WireIdle /\ LinkIdle /\ LockIdle /\ WriterIdle
        /\ CommandIdle

Next == Accept \/ (\E c \in Ids : Session(c)) \/ Broadcaster

Spec == Init /\ [][Next]_vars

FairSpec == Spec /\ SF_vars(Broadcaster) /\ \A c \in Ids : WF_vars(Reply(c))

\* the same server facing peers that may never read: the broadcaster is
\* scheduled, but a session's write_all of its reply need not ever return
StalledPeerSpec == Spec /\ SF_vars(Broadcaster)

\* the server with up to MaxCrowd peers that stay connected, read what they
\* are sent and send only SEND_DATA and STOP
CrowdSession(c) == StoreWriter(c) \/ ReadSendData(c) \/ ReadStop(c)

CrowdBroadcaster == Tick \/ SendLock \/ SendOk

CrowdNext == AcceptCrowd \/ (\E c \in Ids : CrowdSession(c)) \/ CrowdBroadcaster

CrowdSpec == Init /\ [][CrowdNext]_vars

ExtractNext == \E p \in PortionIds : Extract(p)

ExtractStart == ServerInit /\ ExtractInit /\ MergerIdle /\ BufferIdle /\ WireIdle /\ LinkIdle /\ LockIdle /\ WriterIdle
        /\ CommandIdle

ExtractSpec == ExtractStart /\ [][ExtractNext]_vars

MergerNext ==
    \/ \E client_id \in 0 .. 2, sweep \in ReceivedSweeps : add_client_data(client_id, sweep)
    \/ try_merge_next_frame

MergerSpec == Init /\ [][MergerNext]_vars

\* rows of RANGE_BINS bins, as a portion carries them
Rows(seed, n) ==
    [az \in 1 .. n |-> [r \in 1 .. RangeBins |-> Intensity(seed, az - 1, r - 1)]]

\* row counts of data around the two cuts of merge_sweeps (170 and 20), and
\* row counts of overlap_region
DataLengths == {0, 20, 21, 170, 190}

OverlapLengths == {0, 2, 20}

\* sweeps of one sequence_id and timestamp as they can come off a link
PairSweeps(client_id) ==
    {[timestamp      |-> 1000,
      sequence_id    |-> 5,
      azimuth_start  |-> AzimuthRange(client_id)[1],
      azimuth_end    |-> AzimuthRange(client_id)[2],
      range_bins     |-> [r \in 1 .. RangeBins |-> r - 1],
      data           |-> Rows(seed, n),
      overlap_region |-> Rows(seed + client_id, m),
      client_id      |-> client_id] :
        seed \in 0 .. MaxSeed, n \in DataLengths, m \in OverlapLengths}

\* the processor after one add_client_data on each link
PairArrived ==
    /\ \E sweep1 \in PairSweeps(0) : client1_data = <<sweep1>>
    /\ \E sweep2 \in PairSweeps(1) : client2_data = <<sweep2>>
    /\ processed_frames = 0
    /\ arrivals = 2
    /\ evicted_sweeps = {}
    /\ merge_result = NoMerge
    /\ merged_ids = {}

PairStart == ServerInit /\ ExtractIdle /\ PairArrived /\ BufferIdle /\ WireIdle /\ LinkIdle /\ LockIdle /\ WriterIdle
        /\ CommandIdle

PairNext == try_merge_next_frame

PairSpec == PairStart /\ [][PairNext]_vars

\* the portion cut for link p comes off link p
Arrive(p) ==
    /\ extracted[p] # NoSweep
    /\ add_client_data(p, extracted[p])

\* one complete sweep cut by the server, carried over the two links and
\* merged by the client
ReassembleStart == ServerInit /\ ExtractInit /\ MergerIdle /\ BufferIdle /\ WireIdle /\ LinkIdle /\ LockIdle /\ WriterIdle
        /\ CommandIdle

ReassembleNext ==
    \/ \E p \in PortionIds : Extract(p)
    \/ \E p \in 0 .. 1 : Arrive(p)
    \/ try_merge_next_frame

ReassembleSpec == ReassembleStart /\ [][ReassembleNext]_vars

\* ------------------------------------------- a merging client on its links
\* the ids of the two connections of the merging client; another client
\* holds the third
MergingIds == {0, 1}

\* the first client connects to port 8080 and to port 8081, the other client
\* to port 8080
AcceptLink ==
    /\ AcceptCrowd
    /\ listener'[client_counter] = client_counter % 2

\* the sweep a portion header stands for in a window
PortionSweep(portion) ==
    [HeaderSweep(portion.sequence_id, portion.timestamp) EXCEPT !.client_id = portion.client_id]

\* receive_radar_data on the link of connection w.to reads a sweep the
\* server wrote to it; process_radar_data adds it to that link's window
Receive(w) ==
    /\ w \in tick_sent \ link_received
    /\ w.to \in MergingIds
    /\ \A v \in tick_sent \ link_received :
          v.to = w.to => v.portion.timestamp >= w.portion.timestamp
    /\ ~merge_result.panicked
    /\ arrivals < MaxArrivals
    /\ arrivals' = arrivals + 1
    /\ link_received' = link_received \cup {w}
    /\ IF listener[w.to] = 0
       THEN /\ client1_data' = PushBounded(client1_data, PortionSweep(w.portion), WindowSize)
            /\ evicted_sweeps' = evicted_sweeps \cup
                  {<<0, e>> : e \in Popped(client1_data, PortionSweep(w.portion), WindowSize)}
            /\ UNCHANGED client2_data
       ELSE /\ client2_data' = PushBounded(client2_data, PortionSweep(w.portion), WindowSize)
            /\ evicted_sweeps' = evicted_sweeps \cup
                  {<<1, e>> : e \in Popped(client2_data, PortionSweep(w.portion), WindowSize)}
            /\ UNCHANGED client1_data
    /\ UNCHANGED <<processed_frames, merge_result, merged_ids, serverVars, extractVars,
                   bufferVars, wireVars, lockVars, writerVars, commandVars>>

\* the server with the merging client on two connections and another client
\* on a third; the peers read what they are sent and send SEND_DATA, and the
\* other client may close its connection
ResyncSession(c) ==
    \/ StoreWriter(c)
    \/ ReadSendData(c)
    \/ c \notin MergingIds /\ ReadClosed(c)
    \/ c \notin MergingIds /\ Deregister(c)

ResyncNext ==
    \/ AcceptLink
    \/ \E c \in Ids : ResyncSession(c)
    \/ CrowdBroadcaster
    \/ \E w \in tick_sent : Receive(w)
    \/ try_merge_next_frame

ResyncSpec == Init /\ [][ResyncNext]_vars

BufferNext ==
    \/ add_sweep(ArrivingSweep(adds + 1))
    \/ swap_buffers
    \/ TakeBatch

BufferSpec == Init /\ [][BufferNext]_vars

WireNext ==
    \/ \E radar_sweep \in WireSweeps : send_radar_data(radar_sweep)
    \/ \E radar_sweep \in WireSweeps :
          \E written \in BreakPoints(Frame(Serialize(radar_sweep))) :
             SendBroken(radar_sweep, written)
    \/ \E count \in PieceSizes(in_flight) : Deliver(count)
    \/ ReadSize
    \/ ReadPayload
    \/ ReadEof

WireSpec == Init /\ [][WireNext]_vars

LockNext ==
    \/ BroadcasterPass
    \/ \E port \in ListenPorts : AcceptConnection(port)
    \/ \E c \in 0 .. (MaxClients - 1) : SessionStore(c) \/ SessionRead(c) \/ SessionClosed(c)
    \/ \E t \in LockTasks : Acquire(t) \/ Release(t) \/ SpawnSession(t)

LockSpec == Init /\ [][LockNext]_vars

WriterNext ==
    \/ \E radar_sweep \in WireSweeps : SendStart(radar_sweep)
    \/ WriteSize
    \/ WritePayload
    \/ WritePayloadRest
    \/ WriteFails
    \/ \E message \in UnknownTexts : UnknownCommand(message)
    \/ WriteReply
    \/ \E count \in PieceSizes(in_flight) : Deliver(count)
    \/ ReadSize
    \/ ReadPayload
    \/ ReadEof
    \/ ReadOversize

WriterSpec == Init /\ [][WriterNext]_vars

\* the first connection accepted
AcceptFirst == client_counter = 0 /\ Accept

CommandNext ==
    \/ AcceptFirst
    \/ StoreWriter(0)
    \/ \E command \in {"SEND_DATA", "STOP"} : WriteCommand(command)
    \/ \E n \in 1 .. (9 * MaxCommands) : ReadCommand(0, n)

CommandSpec == Init /\ [][CommandNext]_vars

\* ================================================================ claims

\* ---------------------------------------------------------------- C1
\* C1: the sweep of a broadcasting tick that has a peer to send to carries a
\* sequence_id strictly greater than that of the sweep last written, unless a
\* tick saw fewer than 2 ready connections since that write; only after a
\* reset of the counter can a written sequence_id fail to exceed the one
\* written before it; and what is written is the sweep of the current tick.
SequenceIncreases ==
    [][/\ (Tick /\ bpc' = "send") =>
             /\ ~dropped_since_sent' => complete_sweep' > last_sent_seq
             /\ ~reset_since_sent' => complete_sweep' > last_sent_seq
       /\ SendOk =>
             /\ last_sent_seq' = complete_sweep
             /\ reset_since_sent \/ complete_sweep >= last_sent_seq]_vars

\* a second consecutive sweep is about to be written, the count having stayed at 2
SequenceIncreasesWitness ==
    /\ bpc = "sending"
    /\ ~dropped_since_sent
    /\ last_sent_seq >= 1
    /\ complete_sweep = last_sent_seq + 1

\* ---------------------------------------------------------------- C2
\* C2: a tick restarts the sequence counter (the sweep it then generates is
\* number 1) exactly when the count it observes is 2 and the count observed by
\* the tick before it was below 2; every other tick leaves the counter alone
\* or advances it by one.  last_ready_count is the count of the tick before.
ResetOnTransitionOnly ==
    [][Tick =>
         LET cur == ReadyCount(ready_clients)
             transition == last_ready_count < 2 /\ cur = 2
         IN  /\ last_ready_count' = cur
             /\ transition => (sequence_counter' = 1 /\ reset_since_sent')
             /\ ~transition =>
                   /\ sequence_counter' = IF cur < 2 THEN sequence_counter
                                                     ELSE sequence_counter + 1
                   /\ reset_since_sent' = reset_since_sent]_vars

\* the counter was restarted after sweep 2 had been written
ResetWitness ==
    /\ last_ready_count = 2
    /\ sequence_counter = 1
    /\ last_sent_seq = 2
    /\ reset_since_sent

\* ---------------------------------------------------------------- C3
\* C3: a tick that observes fewer than two ready connections generates
\* nothing (sequence_counter and current_time keep their values), starts no
\* send, and leaves both maps of the registry as they were.
SkippedTickIsInert ==
    [][(Tick /\ ReadyCount(ready_clients) < 2) =>
         /\ UNCHANGED <<sequence_counter, current_time, last_sent_seq>>
         /\ UNCHANGED <<clients, ready_clients>>
         /\ bpc' = "idle"
         /\ pending' = {}
         /\ clients_lock' = "free"]_vars

\* ticks have been skipped with one connection ready, after earlier broadcasts
SkippedTickWitness ==
    /\ bpc = "idle"
    /\ last_ready_count = 1
    /\ ReadyCount(ready_clients) = 1
    /\ dropped_since_sent
    /\ current_time >= 1
    /\ sequence_counter = current_time

\* ---------------------------------------------------------------- C4
\* C4: no sweep is written to a connection whose last processed readiness
\* command is STOP.
NoSweepAfterStop ==
    [][SendOk => phase[port_clients[cur_index]] # "stopped"]_vars

\* ---------------------------------------------------------------- C5
\* C5: once a connection with a registered transport has been made ready
\* again by SEND_DATA after STOP, then, unless it or the other connection
\* stops being ready and registered, the broadcaster reaches the write of a
\* sweep to it (from any state in which a tick is still left to the run).
Streaming(c) == bpc = "sending" /\ port_clients[cur_index] = c

PairSteady(c) ==
    /\ c \in clients
    /\ c \in DOMAIN ready_clients
    /\ ready_clients[c]
    /\ ReadyCount(ready_clients) = 2
    /\ Cardinality(Eligible(ready_clients, clients)) = 2

ResumeStreams ==
    \A c \in Ids :
        []((phase[c] = "resumed" /\ PairSteady(c) /\ current_time < MaxTicks)
              => <>(Streaming(c) \/ ~PairSteady(c)))

\* a sweep is being written to a connection that resumed
ResumeStreamsWitness ==
    \E c \in Ids : phase[c] = "resumed" /\ PairSteady(c) /\ Streaming(c)

\* ---------------------------------------------------------------- C6
\* C6: a failed write changes neither map during the send pass; the removal
\* pass runs when the send loop is over and takes every failed id out of both
\* maps, leaving the other entries as they were; an evicted id has no
\* transport again, and no write to it is started.
FailedWriteEvicts ==
    /\ [][SendFail =>
            /\ UNCHANGED <<clients, ready_clients>>
            /\ port_clients[cur_index] \in disconnected_clients'
            /\ bpc' \in {"send", "cleanup"}]_vars
    /\ [][Cleanup =>
            /\ pending = {}
            /\ clients' = clients \ disconnected_clients
            /\ DOMAIN ready_clients' = (DOMAIN ready_clients) \ disconnected_clients
            /\ \A k \in DOMAIN ready_clients' : ready_clients'[k] = ready_clients[k]
            /\ evicted' = evicted \cup disconnected_clients
            /\ disconnected_clients' = {}]_vars
    /\ [][bpc' = "sending" => port_clients'[cur_index'] \notin evicted']_vars
    /\ [](evicted \cap clients = {})
    /\ [](disconnected_clients # {} => bpc # "idle")

\* an evicted connection asked for data again and the broadcaster writes to another
FailedWriteEvictsWitness ==
    \E c \in evicted :
        /\ c \in DOMAIN ready_clients
        /\ ready_clients[c]
        /\ bpc = "sending"
        /\ port_clients[cur_index] # c

\* ---------------------------------------------------------------- C7
\* C7: SEND_DATA processed when the connection's last readiness command was
\* SEND_DATA leaves it ready, and STOP processed after STOP leaves it not
\* ready; the repetition changes no other entry of either map and does not
\* end the session; applying the command twice equals applying it once.
OthersKept(c) ==
    /\ clients' = clients
    /\ session' = session
    /\ (DOMAIN ready_clients') \ {c} = (DOMAIN ready_clients) \ {c}
    /\ \A d \in (DOMAIN ready_clients) \ {c} : ready_clients'[d] = ready_clients[d]

CommandsIdempotent ==
    [][\A c \in Ids :
         /\ (ReadSendData(c) /\ phase[c] \in {"started", "resumed"}) =>
               /\ c \in DOMAIN ready_clients' /\ ready_clients'[c]
               /\ OthersKept(c)
               /\ MarkReady(ready_clients', c) = ready_clients'
         /\ (ReadStop(c) /\ phase[c] = "stopped") =>
               /\ c \in DOMAIN ready_clients' /\ ~ready_clients'[c]
               /\ OthersKept(c)
               /\ MarkNotReady(ready_clients', c) = ready_clients']_vars

\* SEND_DATA was processed twice with no STOP between: before and after an eviction
CommandsIdempotentWitness ==
    \E c \in evicted :
        /\ phase[c] = "started"
        /\ c \in DOMAIN ready_clients
        /\ ready_clients[c]

\* ---------------------------------------------------------------- C8
\* C8: the overlap_region of portion 0 and of portion 1 of one complete sweep
\* are the same, and each is rows 170 .. 189 of the sweep's data.
IsRows(rows, source, first, count) ==
    /\ Len(rows) = count
    /\ \A k \in 1 .. count : rows[k] = source[first + k]

OverlapIdentical ==
    /\ \A p \in {0, 1} :
          extracted[p] # NoSweep => IsRows(extracted[p].overlap_region, frame.data, 170, 20)
    /\ (extracted[0] # NoSweep /\ extracted[1] # NoSweep) =>
          extracted[0].overlap_region = extracted[1].overlap_region

\* both portions extracted from a sweep whose rows all differ
OverlapIdenticalWitness ==
    /\ extracted[0] # NoSweep
    /\ extracted[1] # NoSweep
    /\ \A a, b \in 170 .. 191 : frame.data[a] = frame.data[b] => a = b

\* ---------------------------------------------------------------- C9
\* C9: portion 0 holds rows 0 .. 189 and portion 1 rows 170 .. 359 of the
\* complete sweep, 190 rows each and in order; the two cover 0 .. 359 and
\* share exactly 170 .. 189.
Covered(portion) ==
    {portion.azimuth_start + k - 1 : k \in 1 .. Len(portion.data)}

PortionsCover ==
    /\ extracted[0] # NoSweep => IsRows(extracted[0].data, frame.data, 0, 190)
    /\ extracted[1] # NoSweep => IsRows(extracted[1].data, frame.data, 170, 190)
    /\ (extracted[0] # NoSweep /\ extracted[1] # NoSweep) =>
          /\ Covered(extracted[0]) \cup Covered(extracted[1]) = 0 .. 359
          /\ Covered(extracted[0]) \cap Covered(extracted[1]) = 170 .. 189

\* both portions extracted from a sweep whose first and last rows differ from the seam
PortionsCoverWitness ==
    /\ extracted[0] # NoSweep
    /\ extracted[1] # NoSweep
    /\ frame.data[1] # frame.data[171]
    /\ frame.data[360] # frame.data[190]
    /\ frame.data[170] # frame.data[171]

\* ---------------------------------------------------------------- C10
\* C10: the two sweeps of a merged pair have the same sequence_id and
\* timestamps whose absolute difference is below 100000 microseconds.
Distance(a, b) == IF a >= b THEN a - b ELSE b - a

IsPortion(sweep, p) ==
    /\ sweep.client_id = p
    /\ Len(sweep.data) = 190
    /\ Len(sweep.overlap_region) = 20

PortionsAtHead ==
    /\ client1_data # <<>>
    /\ client2_data # <<>>
    /\ IsPortion(Head(client1_data), 0)
    /\ IsPortion(Head(client2_data), 1)
    /\ Head(client1_data).sequence_id = Head(client2_data).sequence_id
    /\ Distance(Head(client1_data).timestamp, Head(client2_data).timestamp) < 100000

MergeEmitsFrame ==
    [][(try_merge_next_frame /\ PortionsAtHead) =>
          /\ merge_result'.found
          /\ merge_result'.sweep1 = Head(client1_data)
          /\ merge_result'.sweep2 = Head(client2_data)
          /\ merge_result'.frame.sequence_id = Head(client1_data).sequence_id
          /\ merge_result'.frame.timestamp = Head(client1_data).timestamp
          /\ merge_result'.frame.range_bins = Head(client1_data).range_bins
          /\ Len(merge_result'.frame.complete_data) = 360
          /\ processed_frames' = processed_frames + 1
          /\ client1_data' = Tail(client1_data)
          /\ client2_data' = Tail(client2_data)]_vars

\* portions stamped 1000 and 1050 were merged into a frame of 360 rows
MergeEmitsFrameWitness ==
    /\ merge_result.found
    /\ IsPortion(merge_result.sweep1, 0)
    /\ IsPortion(merge_result.sweep2, 1)
    /\ merge_result.sweep1.timestamp = 1000
    /\ merge_result.sweep2.timestamp = 1050
    /\ merge_result.frame.sequence_id = 5
    /\ Len(merge_result.frame.complete_data) = 360

\* ---------------------------------------------------------------- C12
\* C12: an add to a full window pops exactly its oldest entry, which is then
\* no entry of the window; a merge attempt pairs only entries that are in
\* the windows when it runs and puts nothing back; so an entry popped before
\* its partner arrived is in no merged frame, whatever arrives later.
Entries(w) == {w[i] : i \in 1 .. Len(w)}

EvictedNeverMerged ==
    [][/\ \A s \in ReceivedSweeps :
            /\ (add_client_data(0, s) /\ Len(client1_data) = WindowSize) =>
                  /\ client1_data' = Append(Tail(client1_data), s)
                  /\ <<0, Head(client1_data)>> \in evicted_sweeps'
            /\ (add_client_data(1, s) /\ Len(client2_data) = WindowSize) =>
                  /\ client2_data' = Append(Tail(client2_data), s)
                  /\ <<1, Head(client2_data)>> \in evicted_sweeps'
       /\ try_merge_next_frame =>
            /\ Entries(client1_data') \subseteq Entries(client1_data)
            /\ Entries(client2_data') \subseteq Entries(client2_data)
            /\ Len(client1_data') <= Len(client1_data)
            /\ Len(client2_data') <= Len(client2_data)
            /\ merge_result'.found =>
                  /\ merge_result'.sweep1 \in Entries(client1_data)
                  /\ merge_result'.sweep2 \in Entries(client2_data)]_vars

\* portion 0 was popped from window 0; its partner, portion 1, was then
\* merged with another entry of window 0
EvictedNeverMergedWitness ==
    /\ \E e \in evicted_sweeps : e[1] = 0 /\ IsPortion(e[2], 0)
    /\ \A i \in 1 .. Len(client1_data) : ~IsPortion(client1_data[i], 0)
    /\ merge_result.found
    /\ IsPortion(merge_result.sweep2, 1)
    /\ ~IsPortion(merge_result.sweep1, 0)

\* ---------------------------------------------------------------- C13
\* C13: a session that reads an unknown command writes an error line to its
\* own peer (its reply finds its writer in the transport map), goes on
\* reading, stays registered, and changes no readiness flag.
UnknownCommandReported ==
    [][\A c \in Ids :
          /\ ReadUnknown(c) =>
                /\ UNCHANGED <<clients, ready_clients>>
                /\ session'[c] = "replying"
          /\ Reply(c) =>
                /\ c \in clients
                /\ UNCHANGED <<clients, ready_clients>>
                /\ session'[c] = "reading"]_vars

\* ---------------------------------------------------------------- C14
\* C14: on end-of-stream or a read error the session takes its own id, and
\* no other, out of the transport map and then out of the readiness map, and
\* leaves its loop; once it has, its id is in neither map.
SessionDeregisters ==
    /\ [][\A c \in Ids :
            /\ ReadClosed(c) =>
                  /\ clients' = clients \ {c}
                  /\ ready_clients' = ready_clients
                  /\ session'[c] = "closing"
            /\ Deregister(c) =>
                  /\ clients' = clients
                  /\ DOMAIN ready_clients' = (DOMAIN ready_clients) \ {c}
                  /\ \A d \in DOMAIN ready_clients' : ready_clients'[d] = ready_clients[d]
                  /\ session'[c] = "done"
            /\ session[c] = "done" => session'[c] = "done"]_vars
    /\ [](\A c \in Ids :
            /\ session[c] \in {"closing", "done"} => c \notin clients
            /\ session[c] = "done" => c \notin DOMAIN ready_clients)

\* a session has ended after its read closed, and another connection is
\* still registered and ready
SessionDeregistersWitness ==
    \E c, d \in Ids :
        /\ session[c] = "done"
        /\ phase[c] = "closed"
        /\ d \in clients
        /\ d \in DOMAIN ready_clients
        /\ ready_clients[d]

TickSelectsTwo ==
    [][(Tick /\ ReadyCount(ready_clients) = 2) =>
          /\ DOMAIN port_clients' = {0, 1}
          /\ port_clients'[0] # port_clients'[1]
          /\ \A port_index \in DOMAIN port_clients' :
                /\ port_clients'[port_index] \in clients
                /\ port_clients'[port_index] \in DOMAIN ready_clients
                /\ ready_clients[port_clients'[port_index]]]_vars

\* ---------------------------------------------------------------- C17
InArrivalOrder(buffer) ==
    \A i, j \in DOMAIN buffer : i < j => buffer[i].arrival < buffer[j].arrival

\* C17: add_sweep puts the sweep at the tail of the active buffer and, when
\* that made it longer than the capacity, removes the head and nothing else;
\* the inactive buffer is untouched, and a buffer never holds more than the
\* capacity, its sweeps being in arrival order.
AddKeepsNewest ==
    /\ [][add_sweep(ArrivingSweep(adds + 1)) =>
            /\ current_front' = current_front
            /\ InactiveBuffer' = InactiveBuffer
            /\ Len(ActiveBuffer') >= 1
            /\ ActiveBuffer'[Len(ActiveBuffer')] = ArrivingSweep(adds + 1)
            /\ SubSeq(ActiveBuffer', 1, Len(ActiveBuffer') - 1) =
                  IF Len(ActiveBuffer) >= MaxBufferSize
                  THEN SubSeq(ActiveBuffer, 2, Len(ActiveBuffer))
                  ELSE ActiveBuffer]_vars
    /\ [](/\ Len(ActiveBuffer) <= MaxBufferSize
          /\ InArrivalOrder(ActiveBuffer))

\* an add to the back buffer has pushed the oldest sweep out of it
AddKeepsNewestWitness ==
    /\ ~current_front
    /\ Len(back_buffer) = MaxBufferSize
    /\ popped_since_swap # {}
    /\ back_buffer[Len(back_buffer)] = ArrivingSweep(adds)

\* ---------------------------------------------------------------- C18
Newest(added, n) ==
    SubSeq(added, (IF Len(added) > n THEN Len(added) - n ELSE 0) + 1, Len(added))

\* C18: a swap flips current_front and returns what the buffer that was
\* active held, leaving it empty; what it returns is the sweeps added since
\* the previous swap less those the capacity pushed out, in arrival order; no
\* sweep is returned by two swaps, and the buffer that becomes active is empty.
SwapHandsOverOnce ==
    /\ [][swap_buffers =>
            /\ current_front' = ~current_front
            /\ batch' = ActiveBuffer
            /\ InactiveBuffer' = <<>>
            /\ ActiveBuffer' = <<>>
            /\ batch' = Newest(added_since_swap, MaxBufferSize)
            /\ batch' = SelectSeq(added_since_swap, LAMBDA x : x \notin popped_since_swap)
            /\ \A i \in DOMAIN batch' : batch'[i] \notin swapped_out]_vars
    /\ [](InactiveBuffer = <<>>)

\* a later swap has returned a full batch after the capacity pushed a sweep out
SwapHandsOverOnceWitness ==
    /\ Len(batch) = MaxBufferSize
    /\ Cardinality(swapped_out) > Len(batch)
    /\ adds > Cardinality(swapped_out) + Len(ActiveBuffer)
    /\ current_front
    /\ ActiveBuffer = <<>>

\* ---------------------------------------------------------------- C19
IsPrefixOf(a, b) == Len(a) <= Len(b) /\ a = SubSeq(b, 1, Len(a))

RECURSIVE FramedLength(_)
FramedLength(sweeps) ==
    IF sweeps = <<>>
    THEN 0
    ELSE 8 + Len(Serialize(Head(sweeps))) + FramedLength(Tail(sweeps))

\* the sweeps written in full that the reader has not decoded yet
Undecoded == SubSeq(wire_sent, Len(wire_received) + 1, Len(wire_sent))

\* C19: a sweep goes onto the connection as eight bytes that are the
\* big-endian length of its payload followed by exactly that payload, and the
\* reader that takes the prefix and then that many bytes decodes the sweeps
\* written to it, each unchanged, in the order written, losing none.
FramedRoundTrip ==
    /\ [][wire_sent' # wire_sent =>
            LET written == SubSeq(in_flight', Len(in_flight) + 1, Len(in_flight'))
                payload == SubSeq(written, 9, Len(written))
            IN  /\ SubSeq(in_flight', 1, Len(in_flight)) = in_flight
                /\ Len(written) >= 8
                /\ FromBigEndian(SubSeq(written, 1, 8)) = Len(payload)
                /\ Deserialize(payload) = wire_sent'[Len(wire_sent')]]_vars
    /\ [](IsPrefixOf(wire_received, wire_sent))
    /\ []((reader = "payload" /\ Undecoded # <<>>) =>
             data_size = Len(Serialize(Head(Undecoded))))
    /\ [](connection = "open" =>
             Len(rx_bytes) + Len(in_flight) + (IF reader = "payload" THEN 8 ELSE 0) =
                FramedLength(Undecoded))
    /\ [](reader = "failed" => wire_received = wire_sent)

\* the reader has decoded a sweep with rows and then one without
FramedRoundTripWitness ==
    /\ Len(wire_received) = 2
    /\ wire_received = wire_sent
    /\ wire_received[1].data = <<<<3, 4>>, <<5, 300>>>>
    /\ wire_received[1].timestamp = U64Max
    /\ wire_received[2] = HeaderSweep(2, 1050)
    /\ connection = "open"

\* ---------------------------------------------------------------- C20
\* C20: for a portion id other than 0 and 1 the sweep returned spans 0 to 360
\* degrees, holds every row of the complete sweep, and has an empty overlap
\* region.
FallbackIsWholeSweep ==
    \A p \in PortionIds \ {0, 1} :
        extracted[p] # NoSweep =>
            /\ extracted[p].azimuth_start = 0
            /\ extracted[p].azimuth_end = 360
            /\ extracted[p].data = frame.data
            /\ extracted[p].overlap_region = <<>>

\* ---------------------------------------------------------------- C21
Emits == try_merge_next_frame /\ processed_frames' = processed_frames + 1

Assigned == {c \in Ids : session[c] # "none"}

IsReady(ready_map, c) == c \in DOMAIN ready_map /\ ready_map[c]

\* C22: an accepted connection gets an id that no earlier connection has and
\* that is greater than all of theirs, and is registered not ready by the
\* accept; an id turns ready only in the step in which its own session
\* processes a SEND_DATA command.
AcceptRegistersNotReady ==
    /\ [][Accept =>
            \E client_id \in Ids \ Assigned :
                /\ Assigned' = Assigned \cup {client_id}
                /\ \A c \in Assigned : c < client_id
                /\ client_id \notin DOMAIN ready_clients
                /\ client_id \notin clients
                /\ client_id \in DOMAIN ready_clients'
                /\ ~ready_clients'[client_id]]_vars
    /\ [][\A c \in Ids :
            (IsReady(ready_clients', c) /\ ~IsReady(ready_clients, c)) => ReadSendData(c)]_vars

\* the second connection accepted is ready, the first one still is not
AcceptRegistersNotReadyWitness ==
    /\ client_counter = 2
    /\ IsReady(ready_clients, 1)
    /\ 0 \in DOMAIN ready_clients
    /\ ~ready_clients[0]
    /\ phase[0] = "stopped"

\* ---------------------------------------------------------------- C23
\* C23: in the snapshot a tick takes, an id whose session has stored its
\* writer is in both maps or in neither, and every id counted as ready has a
\* transport.
RemovalIsAtomic ==
    [][Tick =>
          \A c \in Ids :
              /\ session[c] \notin {"none", "spawned"} =>
                    (c \in DOMAIN ready_clients <=> c \in clients)
              /\ IsReady(ready_clients, c) => c \in clients]_vars

\* ---------------------------------------------------------------- C24
\* C24: while the broadcaster is inside send_radar_data (its sleep and its
\* writes), or a session is writing its reply, the lock of the transport map
\* is not held.
NoLockAcrossWrite ==
    /\ bpc = "sending" => clients_lock # "broadcaster"
    /\ \A c \in Ids : session[c] = "replying" => clients_lock # "session"

\* ---------------------------------------------------------------- C25
\* C25: whatever the peers do, the broadcaster again and again finds the
\* transport map unlocked with its tick completed.
BroadcasterNeverBlocked ==
    []<>(bpc = "idle" /\ clients_lock = "free")

\* ---------------------------------------------------------------- C26
\* the entries and the session of d are what they were
Untouched(d) ==
    /\ (d \in clients') <=> (d \in clients)
    /\ (d \in DOMAIN ready_clients') <=> (d \in DOMAIN ready_clients)
    /\ d \in DOMAIN ready_clients => ready_clients'[d] = ready_clients[d]
    /\ session'[d] = session[d]

\* C26: the end of a connection's read, a failed write to it and the removal
\* that follows touch no other connection's entries or session and do not
\* stop the broadcaster; a session leaves its read loop only when its own
\* read ends; a session in its read loop can always process a command; after
\* a failed write the broadcaster is back at its interval with the failed id
\* removed.
FailuresContained ==
    /\ [][\A c \in Ids :
            (ReadClosed(c) \/ Deregister(c)) =>
                /\ \A d \in Ids \ {c} : Untouched(d)
                /\ UNCHANGED <<bpc, sequence_counter, current_time, pending>>]_vars
    /\ [][SendFail => \A d \in Ids : Untouched(d)]_vars
    /\ [][Cleanup =>
            /\ \A d \in Ids \ disconnected_clients : Untouched(d)
            /\ session' = session]_vars
    /\ [][\A d \in Ids :
            (session[d] = "reading" /\ session'[d] \in {"closing", "done"}) =>
                ReadClosed(d)]_vars
    /\ [](\A d \in Ids :
            session[d] = "reading" => (ENABLED ReadSendData(d) /\ ENABLED ReadStop(d)))
    /\ \A c \in Ids :
          (c \in disconnected_clients) ~> (bpc = "idle" /\ c \in evicted /\ c \notin clients)

\* after a failed write to one connection the broadcaster has ticked again
\* and the other connection is registered, ready and in its read loop
FailuresContainedWitness ==
    \E c \in evicted, d \in Ids \ evicted :
        /\ last_ready_count = 1
        /\ bpc = "idle"
        /\ d \in clients
        /\ IsReady(ready_clients, d)
        /\ session[d] = "reading"

\* ---------------------------------------------------------------- C27
\* C27: the ready count the broadcaster computes on a tick is 0, 1 or 2.
ReadyCountAtMostTwo ==
    [][Tick => ReadyCount(ready_clients) \in 0 .. 2]_vars

\* ---------------------------------------------------------------- C28
\* the connections the broadcaster wrote to since its latest tick
Served == {w.to : w \in tick_sent}

\* the connections a tick selects
Selected(f) == {f[port_index] : port_index \in DOMAIN f}

\* C28: a tick that selects a pair of connections other than the pair the
\* previous tick served resets the sequence counter, so the sweep it sends
\* is the first one after a reset (stated for ticks that count exactly two
\* ready connections, where the pair does not depend on the map's order).
FreshPairResets ==
    [][(/\ Tick
        /\ last_ready_count = 2
        /\ ReadyCount(ready_clients) = 2
        /\ Cardinality(Served) = 2
        /\ Cardinality(Selected(port_clients')) = 2
        /\ Selected(port_clients') # Served)
          => sequence_counter' = NextSequence(0)]_vars

\* ---------------------------------------------------------------- C29
\* C29: every sweep the broadcaster writes to a connection is the portion
\* whose index is the index of the listening port that accepted the
\* connection (portion 0 on the first port, portion 1 on the second).
PortionFollowsListener ==
    [][SendOk => \A w \in tick_sent' \ tick_sent :
                    w.portion.client_id = listener[w.to]]_vars

\* ---------------------------------------------------------------- C30
\* the overlap row i of a frame merged from overlap regions o1 and o2
IsMergedRow(row, o1, o2, i) ==
    IF i <= Len(o1) /\ i <= Len(o2)
    THEN /\ Len(row) = Len(o1[i])
         /\ Len(row) = Len(o2[i])
         /\ \A k \in 1 .. Len(row) :
               2 * row[k] + ((o1[i][k] + o2[i][k]) % 2) = o1[i][k] + o2[i][k]
    ELSE IF i <= Len(o1) THEN row = o1[i]
    ELSE row = o2[i]

\* C30: the complete_data of a merged frame is rows [0,170) of portion 0's
\* data (all of them when there are fewer), then one row per index of the
\* longer overlap_region, the element-wise average where both sides have
\* the row and the one side's row otherwise, then the rows of portion 1's
\* data from index 20 on (none when it has 20 or fewer).
MergeConcatenates ==
    [][Emits =>
        LET client1  == Head(client1_data)
            client2  == Head(client2_data)
            complete == merge_result'.frame.complete_data
            main1    == IF Len(client1.data) < 170 THEN Len(client1.data) ELSE 170
            overlap  == IF Len(client1.overlap_region) > Len(client2.overlap_region)
                        THEN Len(client1.overlap_region)
                        ELSE Len(client2.overlap_region)
            main2    == IF Len(client2.data) > 20 THEN Len(client2.data) - 20 ELSE 0
        IN  /\ Len(complete) = main1 + overlap + main2
            /\ \A i \in 1 .. main1 : complete[i] = client1.data[i]
            /\ \A i \in 1 .. overlap :
                  IsMergedRow(complete[main1 + i], client1.overlap_region,
                              client2.overlap_region, i)
            /\ \A i \in 1 .. main2 : complete[main1 + overlap + i] = client2.data[20 + i]]_vars

\* a frame of 360 rows merged from two 190-row portions whose second overlap
\* rows differ from each other and from their average, and of which only
\* portion 0 has the other 18
MergeConcatenatesWitness ==
    /\ merge_result.found
    /\ Len(merge_result.sweep1.data) = 190
    /\ Len(merge_result.sweep2.data) = 190
    /\ Len(merge_result.sweep1.overlap_region) = 20
    /\ Len(merge_result.sweep2.overlap_region) = 2
    /\ merge_result.sweep1.overlap_region[2] # merge_result.sweep2.overlap_region[2]
    /\ merge_result.frame.complete_data[172] # merge_result.sweep1.overlap_region[2]
    /\ merge_result.frame.complete_data[172] # merge_result.sweep2.overlap_region[2]
    /\ merge_result.frame.complete_data[173] = merge_result.sweep1.overlap_region[3]
    /\ Len(merge_result.frame.complete_data) = 360

\* ---------------------------------------------------------------- C31
\* C31: merging the portion 0 and the portion 1 extracted from a complete
\* sweep gives a frame whose complete_data is the sweep's data row for row,
\* with the sweep's sequence_id, timestamp and range_bins.
ExtractMergeIdentity ==
    [][(/\ Emits
        /\ merge_result'.sweep1 = extracted[0]
        /\ merge_result'.sweep2 = extracted[1])
          => /\ Len(merge_result'.frame.complete_data) = 360
             /\ \A az \in 1 .. 360 : merge_result'.frame.complete_data[az] = frame.data[az]
             /\ merge_result'.frame.sequence_id = frame.sequence_id
             /\ merge_result'.frame.timestamp = frame.timestamp
             /\ merge_result'.frame.range_bins = frame.range_bins]_vars

\* a frame merged from the two portions of a sweep whose rows differ
ExtractMergeIdentityWitness ==
    /\ merge_result.found
    /\ merge_result.sweep1 = extracted[0]
    /\ merge_result.sweep2 = extracted[1]
    /\ Len(frame.data) = 360
    /\ frame.data[171] # frame.data[172]
    /\ frame.data[171] # frame.data[1]
    /\ merge_result.frame.complete_data = frame.data

\* ---------------------------------------------------------------- C32
\* after is before with the entry at index i taken out, the others in order
TakenOut(before, after, i) ==
    /\ i \in DOMAIN before
    /\ Len(after) = Len(before) - 1
    /\ \A k \in 1 .. (i - 1) : after[k] = before[k]
    /\ \A k \in i .. Len(after) : after[k] = before[k + 1]

\* C32: a merge attempt that finds a match takes exactly the two matched
\* entries out, one of each window, the other entries staying in their
\* order; an attempt that finds none emits nothing and changes no window;
\* so the frames emitted, counted twice, and the entries still held never
\* exceed the portions received.
MatchRemovesPair ==
    /\ [][Emits => \E i \in DOMAIN client1_data, j \in DOMAIN client2_data :
                      /\ merge_result'.sweep1 = client1_data[i]
                      /\ merge_result'.sweep2 = client2_data[j]
                      /\ TakenOut(client1_data, client1_data', i)
                      /\ TakenOut(client2_data, client2_data', j)]_vars
    /\ [][(try_merge_next_frame /\ ~merge_result'.found) =>
              UNCHANGED <<client1_data, client2_data, processed_frames, merged_ids>>]_vars
    /\ [](arrivals - Len(client1_data) - Len(client2_data) >= 2 * processed_frames)

\* one match was taken out of two full windows: an entry of each is left
MatchRemovesPairWitness ==
    /\ merge_result.found
    /\ processed_frames = 1
    /\ arrivals = 4
    /\ Len(client1_data) = 1
    /\ Len(client2_data) = 1
    /\ client1_data[1] # merge_result.sweep1
    /\ client2_data[1] # merge_result.sweep2

\* ---------------------------------------------------------------- C33
\* an add of sweep on a link whose window is before: the window after, and
\* what the add may have evicted from it
AddedInOrder(link, before, after, sweep) ==
    IF Len(before) < WindowSize
    THEN /\ after = Append(before, sweep)
         /\ evicted_sweeps' = evicted_sweeps
    ELSE /\ after = Append(Tail(before), sweep)
         /\ evicted_sweeps' = evicted_sweeps \cup {<<link, Head(before)>>}

\* C33: each window holds at most window_size entries; an add on link 0 or 1
\* appends the sweep to that link's window, evicts that window's oldest
\* entry when it was full and nothing otherwise, and leaves the other window
\* alone; an add with another link index changes neither window.
WindowsBoundedInOrder ==
    /\ [](Len(client1_data) <= WindowSize /\ Len(client2_data) <= WindowSize)
    /\ [][\A s \in ReceivedSweeps :
            /\ add_client_data(0, s) =>
                  /\ AddedInOrder(0, client1_data, client1_data', s)
                  /\ client2_data' = client2_data
            /\ add_client_data(1, s) =>
                  /\ AddedInOrder(1, client2_data, client2_data', s)
                  /\ client1_data' = client1_data
            /\ add_client_data(2, s) =>
                  /\ arrivals' = arrivals + 1
                  /\ UNCHANGED <<client1_data, client2_data, evicted_sweeps>>]_vars

\* window 0 is full of two different entries after evicting a third, and an
\* add with link index 2 was ignored
WindowsBoundedInOrderWitness ==
    /\ Len(client1_data) = WindowSize
    /\ client1_data[1] # client1_data[2]
    /\ client2_data = <<>>
    /\ processed_frames = 0
    /\ arrivals = WindowSize + 2
    /\ evicted_sweeps # {}
    /\ \A e \in evicted_sweeps :
          e[1] = 0 /\ e[2] \notin Entries(client1_data)

\* ---------------------------------------------------------------- C34
\* C34: the two portions of every merged frame were cut from one complete
\* sweep: they carry the timestamp the server gave that sweep.
MergesOneSweep ==
    [][Emits => merge_result'.sweep1.timestamp = merge_result'.sweep2.timestamp]_vars

\* ---------------------------------------------------------------- C35
\* an entry of window 0 and an entry of window 1 with equal sequence_id and
\* timestamps less than 100_000 apart
MergeablePair(w1, w2) ==
    \E i \in DOMAIN w1, j \in DOMAIN w2 :
        /\ w1[i].sequence_id = w2[j].sequence_id
        /\ Distance(w1[i].timestamp, w2[j].timestamp) < 100000

\* a merge attempt in this state can return None, in some build
AttemptFindsNone ==
    /\ ~merge_result.panicked
    /\ \E overflow_checks \in BOOLEAN :
          StoppingPairs(client1_data, client2_data, overflow_checks) = {}

\* C35: a merge attempt returns None only when the windows hold no
\* mergeable pair, so the windows hold none when the loop that repeats the
\* attempt until it returns None is over.
NoPairLeftBehind ==
    /\ [][(try_merge_next_frame /\ ~merge_result'.found /\ ~merge_result'.panicked) =>
              ~MergeablePair(client1_data', client2_data')]_vars
    /\ [](AttemptFindsNone => ~MergeablePair(client1_data, client2_data))

\* after a merge the attempt was repeated and returned None with entries of
\* one sequence_id left in both windows, too far apart to be merged
NoPairLeftBehindWitness ==
    /\ processed_frames = 1
    /\ merge_result = NoMerge
    /\ \E i \in DOMAIN client1_data, j \in DOMAIN client2_data :
          client1_data[i].sequence_id = client2_data[j].sequence_id

\* ---------------------------------------------------------------- C36
\* C36: an id the broadcaster has evicted, or whose session has deregistered
\* it, is in neither the readiness map nor the transport map from then on.
RemovedStaysOut ==
    \A c \in Ids :
        (c \in evicted \/ session[c] = "done") =>
            /\ c \notin DOMAIN ready_clients
            /\ c \notin clients

\* ---------------------------------------------------------------- C37
\* the task waits in lock().await for a mutex another guard holds
Waiting(t) ==
    /\ todo[t] # <<>>
    /\ Head(todo[t])[1] = "lock"
    /\ holder[Head(todo[t])[2]] # NoTask

\* every task of the set waits for a mutex held by a task of the set
WaitOnEachOther(tasks) ==
    \A t \in tasks : Waiting(t) /\ holder[Head(todo[t])[2]] \in tasks

\* C37: in no reachable state does a set of tasks wait on each other for the
\* two registry mutexes; a mutex is held only by a task that is inside the
\* block that took it, and a task that waits leaves some task able to run.
NoLockDeadlock ==
    /\ \A tasks \in (SUBSET LockTasks) \ {{}} : ~WaitOnEachOther(tasks)
    /\ \A registry \in Registries :
          holder[registry] # NoTask =>
              \E i \in DOMAIN todo[holder[registry]] :
                  todo[holder[registry]][i] = Drop(registry)
    /\ (\E t \in LockTasks : Waiting(t)) =>
          \E u \in LockTasks : todo[u] # <<>> /\ ~Waiting(u)

\* the broadcaster holds the transport map and waits for the readiness map,
\* which a session holds, while the other session waits for the transport map
NoLockDeadlockWitness ==
    /\ holder["clients"] = <<"broadcaster", 0>>
    /\ Waiting(<<"broadcaster", 0>>)
    /\ holder["ready_clients"][1] = "session"
    /\ \E c \in 0 .. (MaxClients - 1) :
          /\ Waiting(<<"session", c>>)
          /\ Head(todo[<<"session", c>>]) = Lock("clients")

\* ---------------------------------------------------------------- C38
\* C38: the writes of one frame (the size, the payload in its pieces) follow
\* each other on the connection with nothing between them, the size being
\* the length of the payload; a reply comes before a frame or after a whole
\* one; each write goes onto the connection behind what was written before.
FramesContiguous ==
    /\ [](\A i \in DOMAIN wire_log :
            LET kind == wire_log[i].kind
            IN  /\ kind \in {"size", "reply"} =>
                      i = 1 \/ wire_log[i - 1].kind \in {"rest", "reply"}
                /\ kind = "payload" => i > 1 /\ wire_log[i - 1].kind = "size"
                /\ kind = "rest" =>
                      /\ i > 2
                      /\ wire_log[i - 1].kind = "payload"
                      /\ FromBigEndian(wire_log[i - 2].bytes) =
                            Len(wire_log[i - 1].bytes) + Len(wire_log[i].bytes))
    /\ [](sending.pc # "idle" => clients_lock = "broadcaster")
    /\ [](error_response # NoReply => clients_lock = "session")
    /\ [][wire_log' # wire_log =>
            /\ Len(wire_log') = Len(wire_log) + 1
            /\ in_flight' = in_flight \o wire_log'[Len(wire_log')].bytes]_vars

\* a reply was written between two frames, and the payload of the second is
\* being written
FramesContiguousWitness ==
    /\ Len(wire_log) = 6
    /\ wire_log[3].kind = "rest"
    /\ wire_log[4].kind = "reply"
    /\ wire_log[6].kind = "payload"
    /\ sending.pc = "rest"

\* ---------------------------------------------------------------- C39
RECURSIVE BytesOf(_)
BytesOf(log) == IF log = <<>> THEN <<>> ELSE Head(log).bytes \o BytesOf(Tail(log))

RECURSIVE FramesOf(_)
FramesOf(sweeps) ==
    IF sweeps = <<>> THEN <<>> ELSE Frame(Serialize(Head(sweeps))) \o FramesOf(Tail(sweeps))

\* C39: between two sends the bytes written to an open connection are the
\* frames of the sweeps sent to it and nothing else; the reader's size is
\* always the length of a sweep's encoding, it decodes the sweeps sent, in
\* order, and it fails only when the stream has ended.
OnlySweepFrames ==
    /\ (sending.pc = "idle" /\ connection = "open") =>
          BytesOf(wire_log) = FramesOf(wire_sent)
    /\ reader = "payload" => \E sweep \in WireSweeps : data_size = Len(Serialize(sweep))
    /\ IsPrefixOf(wire_received, wire_sent)
    /\ reader = "failed" => connection = "broken"

\* ---------------------------------------------------------------- C40
\* C40: the commands the session has applied are the first of the commands
\* the client has written, in the order written, and once the session has
\* read all the bytes written every command written has been applied.
CommandsAppliedInOrder ==
    /\ IsPrefixOf(applied, commands_written)
    /\ command_bytes = <<>> => applied = commands_written

====
